---- MODULE Spec2Model ----
(***************************************************************************)
(* The streaming client of versifi-go (src/websocket.go): one WsClient,    *)
(* the goroutines that call it, the read loops and keepalive loops it      *)
(* starts, and the server at the other end of each socket.                 *)
(*                                                                         *)
(* One action is one critical section of c.mu, or one blocking operation   *)
(* (dial, socket read, channel receive, timer).  The code between two      *)
(* critical sections that touches only locals belongs to the action before *)
(* it.                                                                     *)
(*                                                                         *)
(* Spec is the life of a session: connecting, authenticating, failures of  *)
(* the dial and of the transport, timers, Disconnect() and reconnection;   *)
(* its server sends auth replies only.  DispatchSpec is the delivery of    *)
(* business frames to handlers in sessions where nothing fails.            *)
(* HandshakeSpec is the auth handshake with the contents of the auth       *)
(* message, for several credentials and a clock that advances.  WriteSpec  *)
(* takes SendJSON apart into taking c.mu.RLock and writing, to see which   *)
(* writers overlap.  RegistrySpec is the handler map under Subscribe and   *)
(* Unsubscribe on the keys the read loop treats specially, with a server   *)
(* that also sends control frames.  ReconnectSpec is the handler map over  *)
(* transport failures and new sessions.  HandoffSpec takes the end of the  *)
(* auth wait apart into the select and the delete of "__auth__", with a    *)
(* server that sends more than one auth frame.  ReturnSpec is Connect()    *)
(* under weak fairness of the calling goroutine's steps.                   *)
(*                                                                         *)
(* RestSpec is the REST client (src/client.go): callAPI with parseRequest, *)
(* the signature headers, the response and the values returned, and the    *)
(* sign methods of both clients.  Strings are sequences of characters or   *)
(* tokens; HMAC-SHA256 and hex encoding are terms.                         *)
(***************************************************************************)
EXTENDS Naturals, Sequences, FiniteSets, Bags, TLC

\* ------------------------------------------------------------- bounds
NumCallers == 2     \* goroutines of the application that may call the client
SessionCallers == 1 \* of these, the ones that make calls in Spec
MaxOps     == 3     \* calls that each of them makes in one run of Spec
MaxSockets == 2     \* successful dials in one run
MaxPings   == 1     \* ticks of the keepalive tickers in one run
MaxDispatchOps == 2 \* calls of the first caller in one run of DispatchSpec
MaxFrames  == 2     \* frames other than auth replies that the server sends
StartClock == 698   \* the clock (unix seconds) when a run starts
MaxTicks   == 2     \* seconds that pass in one run
MaxCalls   == 1     \* callAPI calls in one run
MaxSigns   == 1     \* direct calls of the sign methods in one run

\* ---------------------------------------------------- program constants
ReconnectDelay == 5 \* NewWsClient: reconnectDelay = 5 * time.Second
AuthLeadSeconds == 300 \* authenticate: expires = now + 5 * time.Minute
StatusBadRequest == 400 \* net/http: the first status that callAPI makes an error

Socks      == 1 .. MaxSockets
Users      == { <<"u", i>> : i \in 1 .. NumCallers }
Readers    == { <<"r", s>> : s \in Socks }      \* go c.readMessages(), one per dial
Keepalives == { <<"k", s>> : s \in Socks }      \* go c.keepAlive(), one per Connect
Connectors == Users \cup Readers                \* goroutines that may run Connect()
Topics     == { "execution_report", "*" }       \* topics subscribed to in Spec
DataTopics == { "execution_report", "analytics" } \* ops of the business frames
NoTopic    == ""                                \* no Subscribe() call in progress
NoSock     == 0                                 \* nil *websocket.Conn
AuthKey    == "__auth__"                        \* the key of authenticate()'s waiter
ControlOps == { "auth", "ping", "subscribe" }   \* ops that readMessages handles itself
HandlerKeys == Topics \cup DataTopics \cup ControlOps \cup { AuthKey }
NoCall     == <<>>                              \* the application has made no call
NoHandler  == <<"nil", 0>>                      \* no entry in c.handlers
UserHandler(u) == <<"user", u[2]>>              \* the callback that caller u passes
TempHandler(s) == <<"auth", s>>                 \* tempHandler of the call that dialed s

Senders    == Users \cup Readers \cup Keepalives  \* goroutines that call SendJSON
NoRequest  == [stage |-> "none", seq |-> 0]     \* callAPI has not been called
NoResponse == <<>>                              \* the server has not answered
NoResult   == <<>>                              \* callAPI has not returned

\* the places of a goroutine inside Connect(), after the isConnected check
ConnectPCs == { "c_dial", "a_send", "a_reg", "a_wait", "a_del", "c_fail" }

VARIABLES
    \* ---- WsClient fields
    isConnected, isAuthenticated, conn, handlers, errHandler,
    doneClosed, reconnect,
    \* ---- the process
    panicked,
    \* ---- sockets and the server
    nextSock, sockClosed, broken, inbound, sent, replied,
    \* ---- authResponse channels (one per authenticate() call, named by the
    \*      socket that the call dialed)
    authch,
    \* ---- goroutines
    pc, ret, dialed, rsock, hcall, opsLeft, stopic, pings,
    \* ---- history
    errCount, atErr, sleptFor, explicitDisc, discReturned, lostOK, called,
    \* ---- dispatch of business frames: the frame a read loop is dispatching,
    \*      the handler invocations so far (history), the frames sent so far,
    \*      the frames skipped as undecodable (history)
    cur, invoked, frames, skipped,
    \* ---- the topics that Unsubscribe removed and no Subscribe has stored
    \*      again since (history)
    removed,
    \* ---- whether a Connect() has failed at authentication (history)
    authFailed,
    \* ---- c.mu: the goroutines that hold it for reading inside SendJSON, each
    \*      with the socket and the frame of its conn.WriteJSON call
    writing,
    \* ---- the credentials, the clock (unix seconds), and the auth message
    \*      written on each socket with the clock at that moment (history)
    APIKey, APISecret, now, authMsg,
    \* ---- the REST client: the request in callAPI, the server's response,
    \*      what callAPI returned, and the signatures computed so far (history)
    request, response, result, signed

clientVars == <<isConnected, isAuthenticated, conn, handlers, errHandler,
                doneClosed, reconnect>>
sockVars   == <<nextSock, sockClosed, broken, inbound, sent, replied>>
procVars   == <<pc, ret, dialed, rsock, hcall, opsLeft, stopic, pings>>
histVars   == <<errCount, atErr, sleptFor, explicitDisc, discReturned, lostOK,
                called>>
dispVars   == <<cur, invoked, frames, skipped, removed>>
lockVars   == <<writing>>
signVars   == <<APIKey, APISecret, now, authMsg>>
restVars   == <<request, response, result, signed>>
streamVars == <<clientVars, panicked, sockVars, authch, procVars, histVars,
                dispVars, authFailed, lockVars, now, authMsg>>
vars       == <<clientVars, panicked, sockVars, authch, procVars, histVars,
                dispVars, authFailed, lockVars, signVars, restVars>>

Frame(o, a)   == [op |-> o, arg |-> a]
AuthFrame     == Frame("auth", "")
PingFrame     == Frame("ping", "")
CloseFrame    == Frame("close", "")
SubFrame(t)   == Frame("subscribe", t)
AuthReply(ok) == [op |-> "auth", success |-> ok]

\* inbound frames as the read loop sees them: a business frame is an envelope
\* with an op; a malformed frame is bytes that json.Unmarshal rejects
DataFrame(t, n) == [op |-> t, seq |-> n]
Malformed(n)    == [raw |-> "not json", seq |-> n]
Decodes(f)      == "op" \in DOMAIN f
NoFrame         == <<>>                         \* no frame being dispatched
SeqOf(f)        == IF "seq" \in DOMAIN f THEN f.seq ELSE 0
\* what a read loop gets of frame f when another read loop is inside
\* ReadMessage on the same connection (gorilla/websocket allows one reader at
\* a time): the frame as sent, or bytes that do not decode
Garbled(f)      == [raw |-> "garbled", seq |-> SeqOf(f)]

\* history: handler h, stored under key, was called with frame f read from s
Invocation(key, h, f, s) ==
    [key |-> key, handler |-> h, seq |-> SeqOf(f), sock |-> s, op |-> f.op]

\* a frame with one of the ops that readMessages handles itself
ControlFrame(o, n) == [op |-> o, success |-> TRUE, seq |-> n]

\* ----------------------------------------------------- signing, auth message
\* Strings that the code builds or converts are sequences of characters.
Digits      == <<"0", "1", "2", "3", "4", "5", "6", "7", "8", "9">>
GetRealtime == <<"G", "E", "T", "/", "r", "e", "a", "l", "t", "i", "m", "e">>

\* fmt.Sprintf("%d", n) of a non-negative n
RECURSIVE Decimal(_)
Decimal(n) ==
    IF n < 10 THEN <<Digits[n + 1]>>
    ELSE Decimal(n \div 10) \o <<Digits[(n % 10) + 1]>>

\* the value of a string of decimal digits (a JSON number, or args[1] as the
\* server reads it)
RECURSIVE ParseDecimal(_)
ParseDecimal(str) ==
    IF str = <<>> THEN 0
    ELSE 10 * ParseDecimal(SubSeq(str, 1, Len(str) - 1))
         + (CHOOSE d \in 0 .. 9 : Digits[d + 1] = str[Len(str)])

\* HMAC-SHA256 and the hex encoding, as terms: two digests are equal exactly
\* when key and message are
HmacSha256(key, msg)  == [mac |-> "hmac-sha256", key |-> key, msg |-> msg]
HexEncodeToString(d)  == [hex |-> d]

\* a WsClient.sign built on SHA-1
MutWsSign(secret, payload) ==
    HexEncodeToString([mac |-> "hmac-sha1", key |-> secret, msg |-> payload])

\* WsClient.sign, lines 454-459
WsSign(secret, payload) ==
    HexEncodeToString(HmacSha256(secret, payload))

\* authenticate(), line 146: time.Now().Add(5 * time.Minute).Unix()
Expires(t) == t + AuthLeadSeconds

\* an authenticate() that signs the expiry of a second reading of the clock
MutAuthMsg(key, secret, t) ==
    [op   |-> "auth",
     args |-> <<key, Decimal(Expires(t)),
                WsSign(secret, GetRealtime \o Decimal(Expires(t + 1)))>>]

\* authenticate(), lines 146-162: the auth message built at clock t
AuthMsg(key, secret, t) ==
    [op   |-> "auth",
     args |-> <<key, Decimal(Expires(t)),
                WsSign(secret, GetRealtime \o Decimal(Expires(t)))>>]

\* history of a read loop: whether it ended on a read error, and c.reconnect
\* and c.isAuthenticated at that moment
NoReadErr == [hit |-> FALSE, rec |-> FALSE, auth |-> FALSE]

\* NewWsClient, and SetErrorHandler (lines 290-292) called on the new client;
\* ops is the number of calls that each caller will make
InitWith(ops) ==
    /\ isConnected = FALSE /\ isAuthenticated = FALSE /\ conn = NoSock
    /\ handlers = [t \in HandlerKeys |-> NoHandler]
    /\ errHandler = TRUE      \* the application has called SetErrorHandler
    /\ doneClosed = FALSE /\ reconnect = TRUE
    /\ panicked = FALSE
    /\ nextSock = 0
    /\ sockClosed = [s \in Socks |-> FALSE]
    /\ broken = [s \in Socks |-> FALSE]
    /\ inbound = [s \in Socks |-> <<>>]
    /\ sent = [s \in Socks |-> EmptyBag]
    /\ replied = [s \in Socks |-> FALSE]
    /\ authch = [s \in Socks |-> "empty"]
    /\ pc = [g \in Users \cup Readers \cup Keepalives |->
               IF g \in Users THEN "idle" ELSE "none"]
    /\ ret = [g \in Connectors |-> "none"]
    /\ dialed = [g \in Connectors |-> NoSock]
    /\ rsock = [r \in Readers |-> NoSock]
    /\ hcall = [r \in Readers |-> <<NoHandler, FALSE>>]
    /\ opsLeft = ops
    /\ stopic = [u \in Users |-> NoTopic]
    /\ pings = 0
    /\ errCount = [g \in Readers \cup Keepalives |-> 0]
    /\ atErr = [r \in Readers |-> NoReadErr]
    /\ sleptFor = [r \in Readers |-> 0]
    /\ explicitDisc = FALSE
    /\ discReturned = FALSE
    /\ lostOK = [s \in Socks |-> FALSE]
    /\ called = NoCall
    /\ cur = [r \in Readers |-> NoFrame]
    /\ invoked = <<>>
    /\ frames = 0
    /\ skipped = {}
    /\ removed = {}
    /\ authFailed = FALSE
    /\ writing = [g \in Senders |-> NoFrame]
    /\ authMsg = [s \in Socks |-> NoFrame]
    /\ request = NoRequest /\ response = NoResponse /\ result = NoResult
    /\ signed = {}

SessionOps == [u \in Users |-> IF u[2] <= SessionCallers THEN MaxOps ELSE 0]

\* NewWsClient(apiKey, apiSecret), and the clock when the run starts
Credentials(k, s, t) == APIKey = k /\ APISecret = s /\ now = t

Init == InitWith(SessionOps) /\ Credentials("key1", "secret1", StartClock)

\* ------------------------------------------------------------ helpers
WebsocketKeepalive == TRUE

Alive == ~panicked          \* no goroutine has panicked: the process is running

\* where a goroutine goes when its Connect() returns
RetPc(g) == IF g \in Users THEN "idle" ELSE "r_exit"

\* readMessages' deferred reconnect: errHandler(err) when its Connect() failed
ErrAfterConnect(g, v) ==
    IF g \in Readers /\ v # "ok" /\ errHandler
    THEN [errCount EXCEPT ![g] = @ + 1] ELSE errCount

\* a write on a socket fails once the client closed it or the transport failed
\* (a write that the transport accepts just before it fails reaches nobody: it
\* is the same run with the failure one step later)
WriteOK(s) == ~sockClosed[s] /\ ~broken[s]

\* a SendJSON that tests only the handle, not isConnected
MutSendErr ==
    IF conn = NoSock THEN "notconn"
    ELSE IF ~WriteOK(conn) THEN "writeerr" ELSE "ok"

\* SendJSON: its return value, and its effect on the wire
SendErr ==
    IF ~isConnected \/ conn = NoSock THEN "notconn"
    ELSE IF ~WriteOK(conn) THEN "writeerr" ELSE "ok"

SendJSON(f) ==
    sent' = IF SendErr = "ok" THEN [sent EXCEPT ![conn] = @ (+) SetToBag({f})] ELSE sent

\* conn.Close() reports an error only on a socket whose transport has failed
\* (the TLS close alert cannot be written)
CloseMayFail(closeErr) == closeErr /\ conn # NoSock /\ broken[conn]

\* The body of Disconnect(), one critical section of c.mu.
Disconnect(closeErr) ==
    IF ~isConnected
    THEN UNCHANGED <<isConnected, isAuthenticated, conn, reconnect, doneClosed,
                     sent, sockClosed, panicked>>
    ELSE IF doneClosed
    THEN \* close(c.done) of a closed channel
         /\ panicked' = TRUE
         /\ reconnect' = FALSE
         /\ UNCHANGED <<isConnected, isAuthenticated, conn, doneClosed, sent, sockClosed>>
    ELSE /\ reconnect' = FALSE
         /\ doneClosed' = TRUE
         /\ UNCHANGED panicked
         /\ IF conn # NoSock
            THEN /\ sent' = IF WriteOK(conn)
                            THEN [sent EXCEPT ![conn] = @ (+) SetToBag({CloseFrame})]
                            ELSE sent
                 /\ sockClosed' = [sockClosed EXCEPT ![conn] = TRUE]
                 /\ IF CloseMayFail(closeErr)
                    THEN UNCHANGED <<isConnected, isAuthenticated, conn>>
                    ELSE /\ isConnected' = FALSE
                         /\ isAuthenticated' = FALSE
                         /\ conn' = NoSock
            ELSE /\ isConnected' = FALSE
                 /\ isAuthenticated' = FALSE
                 /\ conn' = NoSock
                 /\ UNCHANGED <<sent, sockClosed>>

DisconnectRet(closeErr) ==
    IF isConnected /\ ~doneClosed /\ CloseMayFail(closeErr) THEN "disc_err" ELSE "disc_ok"

\* --------------------------------------------------------- Connect()
\* Connect(), lines 87-92: the isConnected check.  A caller starts a call; a
\* read loop's deferred function calls it when its sleep is over.
ConnectCheck(g) ==
    /\ Alive
    /\ \/ g \in Users /\ pc[g] = "idle" /\ opsLeft[g] > 0
       \/ g \in Readers /\ pc[g] = "r_conn"
    /\ opsLeft' = IF g \in Users THEN [opsLeft EXCEPT ![g] = @ - 1] ELSE opsLeft
    /\ dialed' = [dialed EXCEPT ![g] = NoSock]
    /\ IF isConnected
       THEN /\ ret' = [ret EXCEPT ![g] = "already"]
            /\ pc' = [pc EXCEPT ![g] = RetPc(g)]
            /\ errCount' = ErrAfterConnect(g, "already")
       ELSE /\ ret' = [ret EXCEPT ![g] = "none"]
            /\ pc' = [pc EXCEPT ![g] = "c_dial"]
            /\ UNCHANGED errCount
    /\ discReturned' = FALSE
    /\ explicitDisc' = IF g \in Users THEN FALSE ELSE explicitDisc
    /\ called' = IF g \in Users THEN <<g, "Connect">> ELSE called
    /\ UNCHANGED <<restVars, lockVars, signVars, authFailed, dispVars, clientVars, panicked, sockVars, authch, rsock, hcall, stopic, pings, atErr, sleptFor, lostOK>>

\* Connect() that marks the client connected before it looks at the dial error
MutDialFail(g) ==
    /\ Alive
    /\ pc[g] = "c_dial"
    /\ ret' = [ret EXCEPT ![g] = "dialerr"]
    /\ pc' = [pc EXCEPT ![g] = RetPc(g)]
    /\ errCount' = ErrAfterConnect(g, "dialerr")
    /\ discReturned' = FALSE
    /\ isConnected' = TRUE
    /\ UNCHANGED <<restVars, lockVars, signVars, authFailed, dispVars, called, isAuthenticated, conn, handlers, errHandler, doneClosed,
                   reconnect, panicked, sockVars, authch, dialed, rsock, hcall,
                   opsLeft, stopic, pings, atErr, sleptFor, explicitDisc, lostOK>>

\* dialer.Dial fails: Connect() returns the error
DialFail(g) ==
    /\ Alive
    /\ pc[g] = "c_dial"
    /\ ret' = [ret EXCEPT ![g] = "dialerr"]
    /\ pc' = [pc EXCEPT ![g] = RetPc(g)]
    /\ errCount' = ErrAfterConnect(g, "dialerr")
    /\ discReturned' = FALSE
    /\ UNCHANGED <<restVars, lockVars, signVars, authFailed, dispVars, called, clientVars, panicked, sockVars, authch, dialed, rsock, hcall,
                   opsLeft, stopic, pings, atErr, sleptFor, explicitDisc, lostOK>>

\* dialer.Dial succeeds; lines 121-127: the handle is stored, the read loop started
DialOK(g) ==
    /\ Alive
    /\ pc[g] = "c_dial"
    /\ nextSock < MaxSockets
    /\ LET s == nextSock + 1 IN
       /\ nextSock' = s
       /\ conn' = s
       /\ isConnected' = TRUE
       /\ dialed' = [dialed EXCEPT ![g] = s]
       /\ pc' = [pc EXCEPT ![g] = "a_send", ![<<"r", s>>] = "r_select"]
    /\ discReturned' = FALSE
    /\ UNCHANGED <<restVars, lockVars, signVars, authFailed, dispVars, called, isAuthenticated, handlers, errHandler, doneClosed, reconnect,
                   panicked, sockClosed, broken, inbound, sent, replied, authch,
                   ret, rsock, hcall, opsLeft, stopic, pings,
                   errCount, atErr, sleptFor, explicitDisc, lostOK>>

\* authenticate(), lines 146-168: the auth frame is written
AuthSend(g) ==
    /\ Alive
    /\ pc[g] = "a_send"
    /\ SendJSON(AuthFrame)
    /\ IF SendErr = "ok"
       THEN /\ pc' = [pc EXCEPT ![g] = "a_reg"]
            /\ UNCHANGED ret
       ELSE /\ pc' = [pc EXCEPT ![g] = "c_fail"]
            /\ ret' = [ret EXCEPT ![g] = "senderr"]
    /\ discReturned' = FALSE
    /\ writing' = [writing EXCEPT ![g] = NoFrame]
    /\ authMsg' = IF SendErr = "ok"
                  THEN [authMsg EXCEPT ![conn] =
                           [msg |-> AuthMsg(APIKey, APISecret, now), at |-> now]]
                  ELSE authMsg
    /\ UNCHANGED <<restVars, APIKey, APISecret, now, authFailed, dispVars, called, clientVars, panicked, nextSock, sockClosed, broken, inbound,
                   replied, authch, dialed, rsock, hcall, opsLeft,
                   stopic, pings, errCount, atErr, sleptFor, explicitDisc, lostOK>>

\* authenticate(), lines 171-195: the waiter is stored under "__auth__"
AuthRegister(g) ==
    /\ Alive
    /\ pc[g] = "a_reg"
    /\ handlers' = [handlers EXCEPT ![AuthKey] = TempHandler(dialed[g])]
    /\ pc' = [pc EXCEPT ![g] = "a_wait"]
    /\ discReturned' = FALSE
    /\ UNCHANGED <<restVars, lockVars, signVars, authFailed, dispVars, called, isConnected, isAuthenticated, conn, errHandler, doneClosed,
                   reconnect, panicked, sockVars, authch, ret, dialed, rsock,
                   hcall, opsLeft, stopic, pings, errCount, atErr, sleptFor,
                   explicitDisc, lostOK>>

\* authenticate(), lines 199-203, and Connect(), lines 130-140: the result is
\* received; on nil the keepalive loop is started and Connect() returns nil
AuthRecv(g) ==
    /\ Alive
    /\ pc[g] = "a_wait"
    /\ authch[dialed[g]] # "empty"
    /\ authch' = [authch EXCEPT ![dialed[g]] = "empty"]
    /\ handlers' = [handlers EXCEPT ![AuthKey] = NoHandler]
    /\ IF authch[dialed[g]] = "ok"
       THEN /\ ret' = [ret EXCEPT ![g] = "ok"]
            /\ dialed' = [dialed EXCEPT ![g] = NoSock]
            /\ pc' = [pc EXCEPT ![g] = RetPc(g),
                                ![<<"k", dialed[g]>>] =
                                    IF WebsocketKeepalive THEN "k_wait" ELSE @]
       ELSE /\ ret' = [ret EXCEPT ![g] = "rejected"]
            /\ pc' = [pc EXCEPT ![g] = "c_fail"]
            /\ UNCHANGED dialed
    /\ discReturned' = FALSE
    /\ UNCHANGED <<restVars, lockVars, signVars, authFailed, dispVars, called, isConnected, isAuthenticated, conn, errHandler, doneClosed,
                   reconnect, panicked, sockVars, rsock, hcall, opsLeft, stopic, pings, errCount, atErr, sleptFor, explicitDisc,
                   lostOK>>

\* authenticate(), lines 204-208: ten seconds passed with no result
AuthTimeout(g) ==
    /\ Alive
    /\ pc[g] = "a_wait"
    /\ authch[dialed[g]] = "empty"
    /\ handlers' = [handlers EXCEPT ![AuthKey] = NoHandler]
    /\ ret' = [ret EXCEPT ![g] = "timeout"]
    /\ pc' = [pc EXCEPT ![g] = "c_fail"]
    /\ discReturned' = FALSE
    /\ UNCHANGED <<restVars, lockVars, signVars, authFailed, dispVars, called, isConnected, isAuthenticated, conn, errHandler, doneClosed,
                   reconnect, panicked, sockVars, authch, dialed, rsock, hcall,
                   opsLeft, stopic, pings, errCount, atErr, sleptFor,
                   explicitDisc, lostOK>>

\* Connect(), lines 130-133: authenticate() failed; Disconnect(), then the error
ConnectCleanup(g, closeErr) ==
    /\ Alive
    /\ pc[g] = "c_fail"
    /\ Disconnect(closeErr)
    /\ pc' = [pc EXCEPT ![g] = RetPc(g)]
    /\ dialed' = [dialed EXCEPT ![g] = NoSock]
    /\ errCount' = ErrAfterConnect(g, ret[g])
    /\ discReturned' = FALSE
    /\ authFailed' = (authFailed \/ ret[g] \in {"rejected", "timeout"})
    /\ UNCHANGED <<restVars, lockVars, signVars, dispVars, called, handlers, errHandler, nextSock, broken, inbound, replied,
                   authch, ret, rsock, hcall, opsLeft, stopic,
                   pings, atErr, sleptFor, explicitDisc, lostOK>>

\* ------------------------------------------------- the callers' other calls
\* Disconnect() called by the application
CallDisconnect(u, closeErr) ==
    /\ Alive
    /\ u \in Users /\ pc[u] = "idle" /\ opsLeft[u] > 0
    /\ opsLeft' = [opsLeft EXCEPT ![u] = @ - 1]
    /\ Disconnect(closeErr)
    /\ ret' = [ret EXCEPT ![u] = DisconnectRet(closeErr)]
    /\ explicitDisc' = TRUE
    /\ discReturned' = TRUE
    /\ called' = <<u, "Disconnect">>
    /\ UNCHANGED <<restVars, lockVars, signVars, authFailed, dispVars, handlers, errHandler, nextSock, broken, inbound, replied,
                   authch, pc, dialed, rsock, hcall, stopic, pings,
                   errCount, atErr, sleptFor, lostOK>>

\* Subscribe() with its isAuthenticated check left out
MutSubscribeCheck(u, topic) ==
    /\ Alive
    /\ u \in Users /\ pc[u] = "idle" /\ opsLeft[u] > 0
    /\ opsLeft' = [opsLeft EXCEPT ![u] = @ - 1]
    /\ IF FALSE
       THEN /\ ret' = [ret EXCEPT ![u] = "notauth"]
            /\ UNCHANGED <<pc, stopic>>
       ELSE /\ ret' = [ret EXCEPT ![u] = "none"]
            /\ pc' = [pc EXCEPT ![u] = "s_reg"]
            /\ stopic' = [stopic EXCEPT ![u] = topic]
    /\ called' = <<u, "Subscribe">>
    /\ UNCHANGED <<restVars, lockVars, signVars, authFailed, dispVars, clientVars, panicked, sockVars, authch, dialed, rsock, hcall,
                   pings, errCount, atErr, sleptFor, explicitDisc, discReturned, lostOK>>

\* Subscribe(), lines 248-253: the isAuthenticated check
SubscribeCheck(u, topic) ==
    /\ Alive
    /\ u \in Users /\ pc[u] = "idle" /\ opsLeft[u] > 0
    /\ opsLeft' = [opsLeft EXCEPT ![u] = @ - 1]
    /\ IF ~isAuthenticated
       THEN /\ ret' = [ret EXCEPT ![u] = "notauth"]
            /\ UNCHANGED <<pc, stopic>>
       ELSE /\ ret' = [ret EXCEPT ![u] = "none"]
            /\ pc' = [pc EXCEPT ![u] = "s_reg"]
            /\ stopic' = [stopic EXCEPT ![u] = topic]
    /\ called' = <<u, "Subscribe">>
    /\ UNCHANGED <<restVars, lockVars, signVars, authFailed, dispVars, clientVars, panicked, sockVars, authch, dialed, rsock, hcall,
                   pings, errCount, atErr, sleptFor, explicitDisc, discReturned, lostOK>>

\* a Subscribe() that writes the subscribe frame without storing the handler
MutSubscribeRegister(u) ==
    /\ Alive
    /\ pc[u] = "s_reg"
    /\ handlers' = handlers
    /\ pc' = [pc EXCEPT ![u] = "s_send"]
    /\ UNCHANGED <<restVars, lockVars, signVars, authFailed, dispVars, isConnected, isAuthenticated, conn, errHandler, doneClosed,
                   reconnect, panicked, sockVars, authch, ret, dialed, rsock,
                   hcall, opsLeft, stopic, pings, histVars>>

\* Subscribe(), lines 255-257: the handler is stored
SubscribeRegister(u) ==
    /\ Alive
    /\ pc[u] = "s_reg"
    /\ handlers' = [handlers EXCEPT ![stopic[u]] = UserHandler(u)]
    /\ pc' = [pc EXCEPT ![u] = "s_send"]
    /\ removed' = removed \ {stopic[u]}
    /\ UNCHANGED <<restVars, lockVars, signVars, authFailed, cur, invoked, frames, skipped, isConnected, isAuthenticated, conn, errHandler, doneClosed,
                   reconnect, panicked, sockVars, authch, ret, dialed, rsock,
                   hcall, opsLeft, stopic, pings, histVars>>

\* Subscribe(), lines 259-265: the subscribe frame is written
SubscribeSend(u) ==
    /\ Alive
    /\ pc[u] = "s_send"
    /\ SendJSON(SubFrame(stopic[u]))
    /\ ret' = [ret EXCEPT ![u] = IF SendErr = "ok" THEN "sub_ok" ELSE "sub_err"]
    /\ pc' = [pc EXCEPT ![u] = "idle"]
    /\ stopic' = [stopic EXCEPT ![u] = NoTopic]
    /\ writing' = [writing EXCEPT ![u] = NoFrame]
    /\ UNCHANGED <<restVars, signVars, authFailed, dispVars, clientVars, panicked, nextSock, sockClosed, broken, inbound,
                   replied, authch, dialed, rsock, hcall, opsLeft,
                   pings, histVars>>

\* SendPing() called by the application: SendJSON of the ping frame
CallSendPing(u) ==
    /\ Alive
    /\ u \in Users /\ pc[u] = "idle" /\ opsLeft[u] > 0
    /\ opsLeft' = [opsLeft EXCEPT ![u] = @ - 1]
    /\ SendJSON(PingFrame)
    /\ ret' = [ret EXCEPT ![u] = IF SendErr = "ok" THEN "ping_ok"
                                  ELSE IF SendErr = "notconn" THEN "ping_notconn"
                                  ELSE "ping_err"]
    /\ called' = <<u, "SendPing">>
    /\ UNCHANGED <<restVars, lockVars, signVars, authFailed, dispVars, clientVars, panicked, nextSock, sockClosed, broken, inbound,
                   replied, authch, pc, dialed, rsock, hcall, stopic, pings,
                   errCount, atErr, sleptFor, explicitDisc, discReturned, lostOK>>

\* an Unsubscribe() that leaves the registry as it is
MutCallUnsubscribe(u, topic) ==
    /\ Alive
    /\ u \in Users /\ pc[u] = "idle" /\ opsLeft[u] > 0
    /\ opsLeft' = [opsLeft EXCEPT ![u] = @ - 1]
    /\ handlers' = handlers
    /\ removed' = removed \cup {topic}
    /\ ret' = [ret EXCEPT ![u] = "unsub_ok"]
    /\ called' = <<u, "Unsubscribe">>
    /\ UNCHANGED <<restVars, lockVars, signVars, authFailed, cur, invoked, frames,
                   skipped, isConnected, isAuthenticated, conn, errHandler,
                   doneClosed, reconnect, panicked, sockVars, authch, pc, dialed,
                   rsock, hcall, stopic, pings, errCount, atErr, sleptFor,
                   explicitDisc, discReturned, lostOK>>

\* Unsubscribe(topic), lines 269-277, called by the application: the entry is
\* deleted under c.mu and nil is returned
CallUnsubscribe(u, topic) ==
    /\ Alive
    /\ u \in Users /\ pc[u] = "idle" /\ opsLeft[u] > 0
    /\ opsLeft' = [opsLeft EXCEPT ![u] = @ - 1]
    /\ handlers' = [handlers EXCEPT ![topic] = NoHandler]
    /\ removed' = removed \cup {topic}
    /\ ret' = [ret EXCEPT ![u] = "unsub_ok"]
    /\ called' = <<u, "Unsubscribe">>
    /\ UNCHANGED <<restVars, lockVars, signVars, authFailed, cur, invoked, frames,
                   skipped, isConnected, isAuthenticated, conn, errHandler,
                   doneClosed, reconnect, panicked, sockVars, authch, pc, dialed,
                   rsock, hcall, stopic, pings, errCount, atErr, sleptFor,
                   explicitDisc, discReturned, lostOK>>

\* ------------------------------------------------------ readMessages()
\* lines 336-339: select on c.done
ReadSelect(r) ==
    /\ Alive
    /\ pc[r] = "r_select"
    /\ pc' = [pc EXCEPT ![r] = IF doneClosed THEN "r_defer" ELSE "r_load"]
    /\ UNCHANGED <<restVars, lockVars, signVars, authFailed, dispVars, clientVars, panicked, sockVars, authch, ret, dialed, rsock,
                   hcall, opsLeft, stopic, pings, histVars>>

\* line 340: c.conn is loaded (outside c.mu) and ReadMessage is called on it;
\* on a nil handle the call panics
ReadLoad(r) ==
    /\ Alive
    /\ pc[r] = "r_load"
    /\ IF conn = NoSock
       THEN /\ panicked' = TRUE
            /\ UNCHANGED <<pc, rsock>>
       ELSE /\ rsock' = [rsock EXCEPT ![r] = conn]
            /\ pc' = [pc EXCEPT ![r] = "r_read"]
            /\ UNCHANGED panicked
    /\ UNCHANGED <<restVars, lockVars, signVars, authFailed, dispVars, clientVars, sockVars, authch, ret, dialed, hcall, opsLeft, stopic, pings, histVars>>

\* history: the read loop takes the server's success reply off socket s and
\* drops it for want of a waiter, while the Connect() that dialed s has
\* written its auth frame and has not timed out
LostReply(s, f, h) ==
    /\ f.op = "auth" /\ f.success /\ h = NoHandler
    /\ \E g \in Connectors : dialed[g] = s /\ pc[g] \in {"a_reg", "a_wait"}

\* line 340: another read loop is inside ReadMessage on the connection that
\* read loop r reads
RacingRead(r) ==
    \E r2 \in Readers \ {r} : pc[r2] = "r_read" /\ rsock[r2] = rsock[r]

\* a read loop for which a frame that does not decode is fatal: it returns
MutReadFrame(r, garbled) ==
    /\ Alive
    /\ pc[r] = "r_read"
    /\ ~sockClosed[rsock[r]]
    /\ inbound[rsock[r]] # <<>>
    /\ garbled => RacingRead(r)
    /\ LET f == IF garbled THEN Garbled(Head(inbound[rsock[r]]))
                ELSE Head(inbound[rsock[r]])
           h == handlers[AuthKey] IN
       /\ inbound' = [inbound EXCEPT ![rsock[r]] = Tail(@)]
       /\ CASE ~Decodes(f) ->
                 /\ pc' = [pc EXCEPT ![r] = "r_defer"]
                 /\ UNCHANGED <<hcall, cur>>
            [] Decodes(f) /\ f.op = "auth" /\ h # NoHandler /\ h[1] = "auth" ->
                 /\ hcall' = [hcall EXCEPT ![r] = <<h, f.success>>]
                 /\ pc' = [pc EXCEPT ![r] = IF f.success THEN "r_call" ELSE "r_push"]
                 /\ UNCHANGED cur
            [] Decodes(f) /\ f.op = "auth" /\ h # NoHandler /\ h[1] # "auth" ->
                 \* the entry under "__auth__" is a callback that Subscribe stored
                 /\ pc' = [pc EXCEPT ![r] = "r_select"]
                 /\ UNCHANGED <<hcall, cur>>
            [] Decodes(f) /\ f.op = "auth" /\ h = NoHandler ->
                 /\ pc' = [pc EXCEPT ![r] = "r_select"]
                 /\ UNCHANGED <<hcall, cur>>
            [] Decodes(f) /\ f.op \in {"ping", "subscribe"} ->
                 /\ pc' = [pc EXCEPT ![r] = "r_select"]
                 /\ UNCHANGED <<hcall, cur>>
            [] OTHER ->
                 /\ cur' = [cur EXCEPT ![r] = f]
                 /\ pc' = [pc EXCEPT ![r] = "r_spec"]
                 /\ UNCHANGED hcall
       /\ lostOK' = [lostOK EXCEPT ![rsock[r]] =
                       @ \/ (Decodes(f) /\ LostReply(rsock[r], f, h))]
       /\ skipped' = IF Decodes(f) THEN skipped
                     ELSE skipped \cup {<<rsock[r], SeqOf(f), f.raw>>}
       /\ invoked' = IF Decodes(f) /\ f.op = "auth" /\ h # NoHandler /\ h[1] # "auth"
                     THEN Append(invoked, Invocation(AuthKey, h, f, rsock[r]))
                     ELSE invoked
    /\ UNCHANGED <<restVars, lockVars, signVars, authFailed, removed, frames, called, clientVars, panicked, nextSock,
                   sockClosed, broken, sent, replied, authch, ret, dialed, rsock,
                   opsLeft, stopic, pings, errCount, atErr, sleptFor,
                   explicitDisc, discReturned>>

\* lines 340-379: a frame is read, decoded and classified.  A frame that does
\* not decode is skipped; an auth frame looks up the entry under "__auth__" and
\* calls it (the waiter of authenticate(), or whatever else is stored there);
\* ping and subscribe frames are logged; any other frame is a business frame,
\* to be dispatched
ReadFrame(r, garbled) ==
    /\ Alive
    /\ pc[r] = "r_read"
    /\ ~sockClosed[rsock[r]]
    /\ inbound[rsock[r]] # <<>>
    /\ garbled => RacingRead(r)
    /\ LET f == IF garbled THEN Garbled(Head(inbound[rsock[r]]))
                ELSE Head(inbound[rsock[r]])
           h == handlers[AuthKey] IN
       /\ inbound' = [inbound EXCEPT ![rsock[r]] = Tail(@)]
       /\ CASE ~Decodes(f) ->
                 /\ pc' = [pc EXCEPT ![r] = "r_select"]
                 /\ UNCHANGED <<hcall, cur>>
            [] Decodes(f) /\ f.op = "auth" /\ h # NoHandler /\ h[1] = "auth" ->
                 /\ hcall' = [hcall EXCEPT ![r] = <<h, f.success>>]
                 /\ pc' = [pc EXCEPT ![r] = IF f.success THEN "r_call" ELSE "r_push"]
                 /\ UNCHANGED cur
            [] Decodes(f) /\ f.op = "auth" /\ h # NoHandler /\ h[1] # "auth" ->
                 \* the entry under "__auth__" is a callback that Subscribe stored
                 /\ pc' = [pc EXCEPT ![r] = "r_select"]
                 /\ UNCHANGED <<hcall, cur>>
            [] Decodes(f) /\ f.op = "auth" /\ h = NoHandler ->
                 /\ pc' = [pc EXCEPT ![r] = "r_select"]
                 /\ UNCHANGED <<hcall, cur>>
            [] Decodes(f) /\ f.op \in {"ping", "subscribe"} ->
                 /\ pc' = [pc EXCEPT ![r] = "r_select"]
                 /\ UNCHANGED <<hcall, cur>>
            [] OTHER ->
                 /\ cur' = [cur EXCEPT ![r] = f]
                 /\ pc' = [pc EXCEPT ![r] = "r_spec"]
                 /\ UNCHANGED hcall
       /\ lostOK' = [lostOK EXCEPT ![rsock[r]] =
                       @ \/ (Decodes(f) /\ LostReply(rsock[r], f, h))]
       /\ skipped' = IF Decodes(f) THEN skipped
                     ELSE skipped \cup {<<rsock[r], SeqOf(f), f.raw>>}
       /\ invoked' = IF Decodes(f) /\ f.op = "auth" /\ h # NoHandler /\ h[1] # "auth"
                     THEN Append(invoked, Invocation(AuthKey, h, f, rsock[r]))
                     ELSE invoked
    /\ UNCHANGED <<restVars, lockVars, signVars, authFailed, removed, frames, called, clientVars, panicked, nextSock,
                   sockClosed, broken, sent, replied, authch, ret, dialed, rsock,
                   opsLeft, stopic, pings, errCount, atErr, sleptFor,
                   explicitDisc, discReturned>>

\* lines 381-389 and 402-408: the handler stored under the frame's op is looked
\* up and, when there is one, called with the frame.  An execution_report goes
\* on to the wildcard lookup; any other frame does so only when no handler of
\* its own was found
DispatchSpecific(r) ==
    /\ Alive
    /\ pc[r] = "r_spec"
    /\ LET f == cur[r]
           h == IF f.op \in HandlerKeys THEN handlers[f.op] ELSE NoHandler IN
       /\ invoked' = IF h # NoHandler
                     THEN Append(invoked, Invocation(f.op, h, f, rsock[r]))
                     ELSE invoked
       /\ IF f.op = "execution_report" \/ h = NoHandler
          THEN /\ pc' = [pc EXCEPT ![r] = "r_wild"]
               /\ UNCHANGED cur
          ELSE /\ pc' = [pc EXCEPT ![r] = "r_select"]
               /\ cur' = [cur EXCEPT ![r] = NoFrame]
    /\ UNCHANGED <<restVars, lockVars, signVars, authFailed, removed, frames, skipped, clientVars, panicked, sockVars, authch, ret, dialed,
                   rsock, hcall, opsLeft, stopic, pings, histVars>>

\* lines 391-398 and 409-417: the handler stored under "*" is looked up and,
\* when there is one, called with the frame
DispatchWildcard(r) ==
    /\ Alive
    /\ pc[r] = "r_wild"
    /\ LET f == cur[r]
           h == handlers["*"] IN
       invoked' = IF h # NoHandler
                  THEN Append(invoked, Invocation("*", h, f, rsock[r]))
                  ELSE invoked
    /\ pc' = [pc EXCEPT ![r] = "r_select"]
    /\ cur' = [cur EXCEPT ![r] = NoFrame]
    /\ UNCHANGED <<restVars, lockVars, signVars, authFailed, removed, frames, skipped, clientVars, panicked, sockVars, authch, ret, dialed,
                   rsock, hcall, opsLeft, stopic, pings, histVars>>

\* a read loop that reports the read error to errHandler twice
MutReadErr(r) ==
    /\ Alive
    /\ pc[r] = "r_read"
    /\ sockClosed[rsock[r]] \/ (broken[rsock[r]] /\ inbound[rsock[r]] = <<>>)
    /\ errCount' = IF errHandler THEN [errCount EXCEPT ![r] = @ + 2] ELSE errCount
    /\ atErr' = [atErr EXCEPT ![r] =
                    [hit |-> TRUE, rec |-> reconnect, auth |-> isAuthenticated]]
    /\ rsock' = [rsock EXCEPT ![r] = NoSock]
    /\ pc' = [pc EXCEPT ![r] = "r_defer"]
    /\ UNCHANGED <<restVars, lockVars, signVars, authFailed, dispVars, called, clientVars, panicked, sockVars, authch, ret, dialed, hcall, opsLeft, stopic, pings, sleptFor, explicitDisc,
                   discReturned, lostOK>>

\* lines 340-347: ReadMessage fails; errHandler(err); the loop returns
ReadErr(r) ==
    /\ Alive
    /\ pc[r] = "r_read"
    /\ sockClosed[rsock[r]] \/ (broken[rsock[r]] /\ inbound[rsock[r]] = <<>>)
    /\ errCount' = IF errHandler THEN [errCount EXCEPT ![r] = @ + 1] ELSE errCount
    /\ atErr' = [atErr EXCEPT ![r] =
                    [hit |-> TRUE, rec |-> reconnect, auth |-> isAuthenticated]]
    /\ rsock' = [rsock EXCEPT ![r] = NoSock]
    /\ pc' = [pc EXCEPT ![r] = "r_defer"]
    /\ UNCHANGED <<restVars, lockVars, signVars, authFailed, dispVars, called, clientVars, panicked, sockVars, authch, ret, dialed, hcall, opsLeft, stopic, pings, sleptFor, explicitDisc,
                   discReturned, lostOK>>

\* tempHandler, lines 179-184: success sets isAuthenticated
AuthHandlerCall(r) ==
    /\ Alive
    /\ pc[r] = "r_call"
    /\ isAuthenticated' = TRUE
    /\ pc' = [pc EXCEPT ![r] = "r_push"]
    /\ UNCHANGED <<restVars, lockVars, signVars, authFailed, dispVars, isConnected, conn, handlers, errHandler, doneClosed, reconnect,
                   panicked, sockVars, authch, ret, dialed, rsock, hcall, opsLeft, stopic, pings, histVars>>

\* tempHandler, lines 185-187: the result is sent on authResponse (capacity 1)
AuthHandlerPush(r) ==
    /\ Alive
    /\ pc[r] = "r_push"
    /\ LET s == hcall[r][1][2] IN
       /\ authch[s] = "empty"
       /\ authch' = [authch EXCEPT ![s] = IF hcall[r][2] THEN "ok" ELSE "fail"]
    /\ hcall' = [hcall EXCEPT ![r] = <<NoHandler, FALSE>>]
    /\ pc' = [pc EXCEPT ![r] = "r_select"]
    /\ UNCHANGED <<restVars, lockVars, signVars, authFailed, dispVars, clientVars, panicked, sockVars, ret, dialed, rsock,
                   opsLeft, stopic, pings, histVars>>

\* the deferred function, lines 317-320
ReadDefer(r) ==
    /\ Alive
    /\ pc[r] = "r_defer"
    /\ isConnected' = FALSE
    /\ isAuthenticated' = FALSE
    /\ pc' = [pc EXCEPT ![r] = "r_chk"]
    /\ UNCHANGED <<restVars, lockVars, signVars, authFailed, dispVars, conn, handlers, errHandler, doneClosed, reconnect, panicked,
                   sockVars, authch, ret, dialed, rsock, hcall, opsLeft, stopic, pings, histVars>>

\* the deferred function without its time.Sleep: Connect() is called at once
MutReadCheckReconnect(r) ==
    /\ Alive
    /\ pc[r] = "r_chk"
    /\ pc' = [pc EXCEPT ![r] = IF reconnect THEN "r_conn" ELSE "r_exit"]
    /\ UNCHANGED <<restVars, lockVars, signVars, authFailed, dispVars, clientVars, panicked, sockVars, authch, ret, dialed, rsock,
                   hcall, opsLeft, stopic, pings, histVars>>

\* the deferred function, lines 323-325: c.reconnect is read
ReadCheckReconnect(r) ==
    /\ Alive
    /\ pc[r] = "r_chk"
    /\ pc' = [pc EXCEPT ![r] = IF reconnect THEN "r_sleep" ELSE "r_exit"]
    /\ UNCHANGED <<restVars, lockVars, signVars, authFailed, dispVars, clientVars, panicked, sockVars, authch, ret, dialed, rsock,
                   hcall, opsLeft, stopic, pings, histVars>>

\* line 325: time.Sleep(c.reconnectDelay) returns
SleepElapsed(r) ==
    /\ Alive
    /\ pc[r] = "r_sleep"
    /\ sleptFor' = [sleptFor EXCEPT ![r] = ReconnectDelay]
    /\ pc' = [pc EXCEPT ![r] = "r_conn"]
    /\ UNCHANGED <<restVars, lockVars, signVars, authFailed, dispVars, called, clientVars, panicked, sockVars, authch, ret, dialed, rsock,
                   hcall, opsLeft, stopic, pings, errCount, atErr,
                   explicitDisc, discReturned, lostOK>>

\* ------------------------------------------------------------ keepAlive()
\* lines 429-431: c.done is closed
KeepAliveDone(k) ==
    /\ Alive
    /\ pc[k] = "k_wait"
    /\ doneClosed
    /\ pc' = [pc EXCEPT ![k] = "k_exit"]
    /\ UNCHANGED <<restVars, lockVars, signVars, authFailed, dispVars, clientVars, panicked, sockVars, authch, ret, dialed, rsock,
                   hcall, opsLeft, stopic, pings, histVars>>

\* lines 432-439: the ticker fires; isConnected is read
KeepAliveTick(k) ==
    /\ Alive
    /\ pc[k] = "k_wait"
    /\ pings < MaxPings
    /\ pings' = pings + 1
    /\ pc' = [pc EXCEPT ![k] = IF isConnected THEN "k_ping" ELSE "k_exit"]
    /\ UNCHANGED <<restVars, lockVars, signVars, authFailed, dispVars, clientVars, panicked, sockVars, authch, ret, dialed, rsock,
                   hcall, opsLeft, stopic, histVars>>

\* lines 441-448: SendPing(); on an error errHandler(err) and the loop returns
KeepAlivePing(k) ==
    /\ Alive
    /\ pc[k] = "k_ping"
    /\ SendJSON(PingFrame)
    /\ IF SendErr = "ok"
       THEN /\ pc' = [pc EXCEPT ![k] = "k_wait"]
            /\ UNCHANGED errCount
       ELSE /\ pc' = [pc EXCEPT ![k] = "k_exit"]
            /\ errCount' = IF errHandler THEN [errCount EXCEPT ![k] = @ + 1]
                           ELSE errCount
    /\ writing' = [writing EXCEPT ![k] = NoFrame]
    /\ UNCHANGED <<restVars, signVars, authFailed, dispVars, called, clientVars, panicked, nextSock, sockClosed, broken, inbound,
                   replied, authch, ret, dialed, rsock, hcall, opsLeft,
                   stopic, pings, atErr, sleptFor, explicitDisc, discReturned, lostOK>>

\* ------------------------------------------------- SendJSON, step by step
\* no goroutine holds c.mu for reading inside SendJSON, so that Lock() succeeds
NoWriter == \A g \in Senders : writing[g] = NoFrame

\* the frame that goroutine g is about to pass to SendJSON
FrameOf(g) ==
    IF pc[g] = "a_send" THEN AuthFrame
    ELSE IF pc[g] = "s_send" THEN SubFrame(stopic[g])
    ELSE PingFrame

\* SendJSON, lines 296-303: c.mu.RLock() (any number of goroutines hold it at a
\* time), the connection test passes, and conn.WriteJSON is entered.  The
\* action that writes the frame (AuthSend, SubscribeSend, KeepAlivePing) is the
\* return of WriteJSON and the RUnlock
SendJSONBegin(g) ==
    /\ Alive
    /\ pc[g] \in {"a_send", "s_send", "k_ping"}
    /\ writing[g] = NoFrame
    /\ SendErr = "ok"
    /\ writing' = [writing EXCEPT ![g] = [sock |-> conn, frame |-> FrameOf(g)]]
    /\ UNCHANGED <<restVars, signVars, authFailed, dispVars, clientVars, panicked,
                   sockVars, authch, procVars, histVars>>

\* goroutine g's SendJSON is at its return: WriteJSON was entered, or the
\* connection test fails
SendJSONReturns(g) == writing[g] # NoFrame \/ SendErr # "ok"

\* ------------------------------------------------------------ the server
\* the server answers the auth frame it received on socket s
ServerAuthReply(s, ok) ==
    /\ Alive
    /\ s <= nextSock
    /\ ~replied[s] /\ ~broken[s] /\ ~sockClosed[s]
    /\ BagIn(AuthFrame, sent[s])
    /\ inbound' = [inbound EXCEPT ![s] = Append(@, AuthReply(ok))]
    /\ replied' = [replied EXCEPT ![s] = TRUE]
    /\ UNCHANGED <<restVars, lockVars, signVars, authFailed, dispVars, clientVars, panicked, nextSock, sockClosed, broken, sent,
                   authch, procVars, histVars>>

\* the transport of socket s fails (the peer is gone): reads and writes fail
ServerBreak(s) ==
    /\ Alive
    /\ s <= nextSock
    /\ ~broken[s] /\ ~sockClosed[s]
    /\ broken' = [broken EXCEPT ![s] = TRUE]
    /\ UNCHANGED <<restVars, lockVars, signVars, authFailed, dispVars, clientVars, panicked, nextSock, sockClosed, inbound, sent,
                   replied, authch, procVars, histVars>>

\* the server has a subscribe frame for topic t, or for every topic, on socket s
Subscribed(s, t) == BagIn(SubFrame(t), sent[s]) \/ BagIn(SubFrame("*"), sent[s])

\* the server sends a business frame for a topic that socket s subscribed to
ServerSend(s, t) ==
    /\ Alive
    /\ s <= nextSock
    /\ ~broken[s] /\ ~sockClosed[s]
    /\ frames < MaxFrames
    /\ Subscribed(s, t)
    /\ frames' = frames + 1
    /\ inbound' = [inbound EXCEPT ![s] = Append(@, DataFrame(t, frames + 1))]
    /\ UNCHANGED <<restVars, lockVars, signVars, authFailed, removed, cur, invoked, skipped, clientVars, panicked, nextSock, sockClosed,
                   broken, sent, replied, authch, procVars, histVars>>

\* the server sends bytes that are not a JSON envelope
ServerSendMalformed(s) ==
    /\ Alive
    /\ s <= nextSock
    /\ ~broken[s] /\ ~sockClosed[s]
    /\ frames < MaxFrames
    /\ replied[s]
    /\ frames' = frames + 1
    /\ inbound' = [inbound EXCEPT ![s] = Append(@, Malformed(frames + 1))]
    /\ UNCHANGED <<restVars, lockVars, signVars, authFailed, removed, cur, invoked, skipped, clientVars, panicked, nextSock, sockClosed,
                   broken, sent, replied, authch, procVars, histVars>>

\* the server sends a frame with one of the ops that the read loop handles
\* itself: a pong, a subscription confirmation, an auth reply nobody asked for
ServerSendControl(s, o) ==
    /\ Alive
    /\ s <= nextSock
    /\ ~broken[s] /\ ~sockClosed[s]
    /\ frames < MaxFrames
    /\ replied[s]
    /\ frames' = frames + 1
    /\ inbound' = [inbound EXCEPT ![s] = Append(@, ControlFrame(o, frames + 1))]
    /\ UNCHANGED <<restVars, lockVars, signVars, authFailed, removed, cur, invoked, skipped, clientVars, panicked, nextSock, sockClosed,
                   broken, sent, replied, authch, procVars, histVars>>

\* ------------------------------------------------------- specification
Next ==
    \/ \E g \in Connectors : ConnectCheck(g)
    \/ \E g \in Connectors : DialFail(g)
    \/ \E g \in Connectors : DialOK(g)
    \/ \E g \in Connectors : AuthSend(g)
    \/ \E g \in Connectors : AuthRegister(g)
    \/ \E g \in Connectors : AuthRecv(g)
    \/ \E g \in Connectors : AuthTimeout(g)
    \/ \E g \in Connectors, e \in BOOLEAN : ConnectCleanup(g, e)
    \/ \E u \in Users, e \in BOOLEAN : CallDisconnect(u, e)
    \/ \E u \in Users, t \in Topics : SubscribeCheck(u, t)
    \/ \E u \in Users : SubscribeRegister(u)
    \/ \E u \in Users : SubscribeSend(u)
    \/ \E u \in Users : CallSendPing(u)
    \/ \E r \in Readers : ReadSelect(r)
    \/ \E r \in Readers : ReadLoad(r)
    \/ \E r \in Readers, garbled \in BOOLEAN : ReadFrame(r, garbled)
    \/ \E r \in Readers : ReadErr(r)
    \/ \E r \in Readers : AuthHandlerCall(r)
    \/ \E r \in Readers : AuthHandlerPush(r)
    \/ \E r \in Readers : ReadDefer(r)
    \/ \E r \in Readers : ReadCheckReconnect(r)
    \/ \E r \in Readers : SleepElapsed(r)
    \/ \E k \in Keepalives : KeepAliveDone(k)
    \/ \E k \in Keepalives : KeepAliveTick(k)
    \/ \E k \in Keepalives : KeepAlivePing(k)
    \/ \E s \in Socks, ok \in BOOLEAN : ServerAuthReply(s, ok)
    \/ \E s \in Socks : ServerBreak(s)

Spec == Init /\ [][Next]_vars

\* ------------------------------------------- dispatch of business frames
\* Sessions in which nothing fails: no dial error, no transport failure, no
\* timer (auth timeout, keepalive ticker) fires, nobody calls Disconnect().
\* Two callers connect and subscribe while the server sends business frames.
DispatchOps == [u \in Users |-> IF u[2] = 1 THEN MaxDispatchOps ELSE 1]

DispatchInit == InitWith(DispatchOps) /\ Credentials("key1", "secret1", StartClock)

DispatchNext ==
    \/ \E g \in Users : ConnectCheck(g)
    \/ \E g \in Users : DialOK(g)
    \/ \E g \in Users : AuthSend(g)
    \/ \E g \in Users : AuthRegister(g)
    \/ \E g \in Users : AuthRecv(g)
    \/ \E u \in Users, t \in Topics \cup DataTopics : SubscribeCheck(u, t)
    \/ \E u \in Users : SubscribeRegister(u)
    \/ \E u \in Users : SubscribeSend(u)
    \/ \E r \in Readers : ReadSelect(r)
    \/ \E r \in Readers : ReadLoad(r)
    \/ \E r \in Readers, garbled \in BOOLEAN : ReadFrame(r, garbled)
    \/ \E r \in Readers : AuthHandlerCall(r)
    \/ \E r \in Readers : AuthHandlerPush(r)
    \/ \E r \in Readers : DispatchSpecific(r)
    \/ \E r \in Readers : DispatchWildcard(r)
    \/ \E s \in Socks, ok \in BOOLEAN : ServerAuthReply(s, ok)
    \/ \E s \in Socks, t \in DataTopics : ServerSend(s, t)
    \/ \E s \in Socks : ServerSendMalformed(s)

DispatchSpec == DispatchInit /\ [][DispatchNext]_vars

\* ------------------------------------------------------- the handshake
\* the clock advances by one second
Tick ==
    /\ Alive
    /\ now < StartClock + MaxTicks
    /\ now' = now + 1
    /\ UNCHANGED <<restVars, lockVars, APIKey, APISecret, authMsg, authFailed,
                   dispVars, clientVars, panicked, sockVars, authch, procVars,
                   histVars>>

\* the caller that connects in the sessions below
Openers == { <<"u", 1>> }

\* Connect() with its handshake, for any credentials, while the clock runs
Keys    == { "key1", "key2" }
Secrets == { "secret1", "secret2" }

HandshakeInit ==
    /\ InitWith(DispatchOps)
    /\ \E k \in Keys, s \in Secrets : Credentials(k, s, StartClock)

HandshakeNext ==
    \/ \E g \in Openers : ConnectCheck(g)
    \/ \E g \in Users : DialOK(g)
    \/ \E g \in Users : AuthSend(g)
    \/ \E g \in Users : AuthRegister(g)
    \/ \E g \in Users : AuthRecv(g)
    \/ \E g \in Users : AuthTimeout(g)
    \/ \E g \in Users : ConnectCleanup(g, FALSE)
    \/ \E r \in Readers : ReadSelect(r)
    \/ \E r \in Readers : ReadLoad(r)
    \/ \E r \in Readers : ReadFrame(r, FALSE)
    \/ \E r \in Readers : ReadErr(r)
    \/ \E r \in Readers : AuthHandlerCall(r)
    \/ \E r \in Readers : AuthHandlerPush(r)
    \/ \E r \in Readers : ReadDefer(r)
    \/ \E r \in Readers : ReadCheckReconnect(r)
    \/ \E s \in Socks, ok \in BOOLEAN : ServerAuthReply(s, ok)
    \/ Tick

HandshakeSpec == HandshakeInit /\ [][HandshakeNext]_vars

\* ------------------------------------------------------- the registry
\* One session in which nothing fails: the first caller connects, both callers
\* subscribe and unsubscribe, also under the names that the client uses
\* itself, and the server sends business frames and frames with the ops that
\* the read loop handles itself.
RegistryTopics == { "execution_report", "*", "ping", AuthKey }

RegistryInit == InitWith([u \in Users |-> IF u \in Openers THEN MaxOps ELSE 1]) /\ Credentials("key1", "secret1", StartClock)

RegistryNext ==
    \/ \E g \in Openers : ConnectCheck(g)
    \/ \E g \in Users : DialOK(g)
    \/ \E g \in Users : AuthSend(g)
    \/ \E g \in Users : AuthRegister(g)
    \/ \E g \in Users : AuthRecv(g)
    \/ \E u \in Users, t \in RegistryTopics : SubscribeCheck(u, t)
    \/ \E u \in Users : SubscribeRegister(u)
    \/ \E u \in Users : SubscribeSend(u)
    \/ \E u \in Users, t \in RegistryTopics : CallUnsubscribe(u, t)
    \/ \E r \in Readers : ReadSelect(r)
    \/ \E r \in Readers : ReadLoad(r)
    \/ \E r \in Readers : ReadFrame(r, FALSE)
    \/ \E r \in Readers : AuthHandlerCall(r)
    \/ \E r \in Readers : AuthHandlerPush(r)
    \/ \E r \in Readers : DispatchSpecific(r)
    \/ \E r \in Readers : DispatchWildcard(r)
    \/ \E s \in Socks : ServerAuthReply(s, TRUE)
    \/ \E s \in Socks, t \in DataTopics : ServerSend(s, t)
    \/ \E s \in Socks, o \in ControlOps : ServerSendControl(s, o)

RegistrySpec == RegistryInit /\ [][RegistryNext]_vars

\* ------------------------------------------------ the registry over sessions
\* One caller connects, subscribes and disconnects while the transport may
\* fail and the read loop reconnects; no keepalive tick, no dial failure.
ReconnectTopics == { "*", AuthKey }

ReconnectNext ==
    \/ \E g \in Connectors : ConnectCheck(g)
    \/ \E g \in Connectors : DialOK(g)
    \/ \E g \in Connectors : AuthSend(g)
    \/ \E g \in Connectors : AuthRegister(g)
    \/ \E g \in Connectors : AuthRecv(g)
    \/ \E g \in Connectors : AuthTimeout(g)
    \/ \E g \in Connectors : ConnectCleanup(g, FALSE)
    \/ \E u \in Users : CallDisconnect(u, FALSE)
    \/ \E u \in Users, t \in ReconnectTopics : SubscribeCheck(u, t)
    \/ \E u \in Users : SubscribeRegister(u)
    \/ \E u \in Users : SubscribeSend(u)
    \/ \E r \in Readers : ReadSelect(r)
    \/ \E r \in Readers : ReadLoad(r)
    \/ \E r \in Readers : ReadFrame(r, FALSE)
    \/ \E r \in Readers : ReadErr(r)
    \/ \E r \in Readers : AuthHandlerCall(r)
    \/ \E r \in Readers : AuthHandlerPush(r)
    \/ \E r \in Readers : ReadDefer(r)
    \/ \E r \in Readers : ReadCheckReconnect(r)
    \/ \E r \in Readers : SleepElapsed(r)
    \/ \E s \in Socks : ServerAuthReply(s, TRUE)
    \/ \E s \in Socks : ServerBreak(s)

ReconnectSpec == Init /\ [][ReconnectNext]_vars

\* ------------------------------------------------ the end of the auth wait
\* AuthRecv and AuthTimeout above take the select of authenticate() and the
\* critical section after it as one step.  Here they are two: the select
\* returns, and then "__auth__" is deleted under c.mu, so that the read loop
\* can look the waiter up in between.
\* authenticate(), line 199: a result is received from authResponse
AuthWaitRecv(g) ==
    /\ Alive
    /\ pc[g] = "a_wait"
    /\ authch[dialed[g]] # "empty"
    /\ authch' = [authch EXCEPT ![dialed[g]] = "empty"]
    /\ ret' = [ret EXCEPT ![g] = IF authch[dialed[g]] = "ok" THEN "ok" ELSE "rejected"]
    /\ pc' = [pc EXCEPT ![g] = "a_del"]
    /\ UNCHANGED <<restVars, lockVars, signVars, authFailed, dispVars, clientVars,
                   panicked, sockVars, dialed, rsock, hcall, opsLeft, stopic,
                   pings, histVars>>

\* authenticate(), line 204: the timer fires first
AuthWaitTimeout(g) ==
    /\ Alive
    /\ pc[g] = "a_wait"
    /\ authch[dialed[g]] = "empty"
    /\ ret' = [ret EXCEPT ![g] = "timeout"]
    /\ pc' = [pc EXCEPT ![g] = "a_del"]
    /\ UNCHANGED <<restVars, lockVars, signVars, authFailed, dispVars, clientVars,
                   panicked, sockVars, authch, dialed, rsock, hcall, opsLeft,
                   stopic, pings, histVars>>

\* authenticate(), lines 200-203 and 205-208: "__auth__" is deleted and the
\* result returned; Connect(), lines 130-140: on nil the keepalive loop is
\* started and Connect() returns nil
AuthDelete(g) ==
    /\ Alive
    /\ pc[g] = "a_del"
    /\ handlers' = [handlers EXCEPT ![AuthKey] = NoHandler]
    /\ IF ret[g] = "ok"
       THEN /\ dialed' = [dialed EXCEPT ![g] = NoSock]
            /\ pc' = [pc EXCEPT ![g] = RetPc(g),
                                ![<<"k", dialed[g]>>] =
                                    IF WebsocketKeepalive THEN "k_wait" ELSE @]
       ELSE /\ pc' = [pc EXCEPT ![g] = "c_fail"]
            /\ UNCHANGED dialed
    /\ discReturned' = FALSE
    /\ UNCHANGED <<restVars, lockVars, signVars, authFailed, dispVars, called,
                   isConnected, isAuthenticated, conn, errHandler, doneClosed,
                   reconnect, panicked, sockVars, authch, ret, rsock, hcall,
                   opsLeft, stopic, pings, errCount, atErr, sleptFor,
                   explicitDisc, lostOK>>

HandoffNext ==
    \/ \E g \in Openers : ConnectCheck(g)
    \/ \E g \in Users : DialOK(g)
    \/ \E g \in Users : AuthSend(g)
    \/ \E g \in Users : AuthRegister(g)
    \/ \E g \in Users : AuthWaitRecv(g)
    \/ \E g \in Users : AuthWaitTimeout(g)
    \/ \E g \in Users : AuthDelete(g)
    \/ \E g \in Users : ConnectCleanup(g, FALSE)
    \/ \E r \in Readers : ReadSelect(r)
    \/ \E r \in Readers : ReadLoad(r)
    \/ \E r \in Readers : ReadFrame(r, FALSE)
    \/ \E r \in Readers : ReadErr(r)
    \/ \E r \in Readers : AuthHandlerCall(r)
    \/ \E r \in Readers : AuthHandlerPush(r)
    \/ \E r \in Readers : ReadDefer(r)
    \/ \E r \in Readers : ReadCheckReconnect(r)
    \/ \E s \in Socks, ok \in BOOLEAN : ServerAuthReply(s, ok)
    \/ \E s \in Socks : ServerSendControl(s, "auth")

HandoffSpec == DispatchInit /\ [][HandoffNext]_vars

\* ----------------------------------------------- Connect() under fairness
\* the steps of one Connect() call after its isConnected check: each is a
\* step of the calling goroutine alone (the dial returns, a write returns, a
\* critical section of c.mu is entered, the select returns on the channel or
\* on the timer)
ConnectStep(g) ==
    \/ DialOK(g)
    \/ DialFail(g)
    \/ AuthSend(g)
    \/ AuthRegister(g)
    \/ AuthWaitRecv(g)
    \/ AuthWaitTimeout(g)
    \/ AuthDelete(g)
    \/ ConnectCleanup(g, FALSE)

ReturnNext ==
    \/ \E g \in Openers : ConnectCheck(g)
    \/ \E g \in Users : DialOK(g)
    \/ \E g \in Users : DialFail(g)
    \/ \E g \in Users : AuthSend(g)
    \/ \E g \in Users : AuthRegister(g)
    \/ \E g \in Users : AuthWaitRecv(g)
    \/ \E g \in Users : AuthWaitTimeout(g)
    \/ \E g \in Users : AuthDelete(g)
    \/ \E g \in Users : ConnectCleanup(g, FALSE)
    \/ \E r \in Readers : ReadSelect(r)
    \/ \E r \in Readers : ReadLoad(r)
    \/ \E r \in Readers : ReadFrame(r, FALSE)
    \/ \E r \in Readers : ReadErr(r)
    \/ \E r \in Readers : AuthHandlerCall(r)
    \/ \E r \in Readers : AuthHandlerPush(r)
    \/ \E r \in Readers : ReadDefer(r)
    \/ \E r \in Readers : ReadCheckReconnect(r)
    \/ \E s \in Socks, ok \in BOOLEAN : ServerAuthReply(s, ok)
    \/ \E s \in Socks : ServerBreak(s)

\* a goroutine inside Connect() is scheduled, and the runtime's timer fires
ReturnSpec ==
    /\ DispatchInit
    /\ [][ReturnNext]_vars
    /\ \A g \in Users : WF_vars(ConnectStep(g))

\* ------------------------------------------------------- the REST client
\* (src/client.go)  One callAPI call at a time: a service builds the request,
\* parseRequest completes and signs it, the HTTP client sends it, and callAPI
\* turns the response into (data, err).
Methods     == { "GET", "DELETE", "POST", "PUT" }
SecTypes    == { "secTypeNone", "secTypeAPIKey", "secTypeSigned" }
HeaderNames == { "User-Agent", "Content-Type", "X-VERSIFI-API-KEY",
                 "X-VERSIFI-API-SIGN" }
NoHeader    == <<>>                      \* the header is not set
NilBytes    == <<"nil">>                 \* a nil []byte
NilError    == [type |-> "nil"]          \* a nil error
NilReader   == [bytes |-> <<>>, pos |-> 0, isNil |-> TRUE]  \* a nil io.Reader
BaseURL     == <<"https://api.versifi.io">>
Endpoint    == <<"/v2/orders">>

\* url.Values: the parameters set by setParam, by key; a value is a string
SortedKeys  == <<"limit", "status">>
QueryValues == [limit |-> <<"1", "0">>, status |-> <<"A", "/", "B">>]
Queries     == { [k \in D |-> QueryValues[k]] : D \in SUBSET DOMAIN QueryValues }

\* url.QueryEscape: "/" becomes %2F, a space becomes +, letters and digits stay
RECURSIVE QueryEscape(_)
QueryEscape(str) ==
    IF str = <<>> THEN <<>>
    ELSE (IF Head(str) = "/" THEN <<"%", "2", "F">>
          ELSE IF Head(str) = " " THEN <<"+">>
          ELSE <<Head(str)>>) \o QueryEscape(Tail(str))

\* url.Values.Encode: key=value pairs in the order of the sorted keys, joined
\* with "&" (the keys are letters: escaping leaves them as they are)
RECURSIVE EncodeFrom(_, _)
EncodeFrom(q, i) ==
    IF i > Len(SortedKeys) THEN <<>>
    ELSE LET k    == SortedKeys[i]
             rest == EncodeFrom(q, i + 1) IN
         IF k \notin DOMAIN q THEN rest
         ELSE <<k, "=">> \o QueryEscape(q[k])
              \o (IF rest = <<>> THEN <<>> ELSE <<"&">> \o rest)

Encode(q) == EncodeFrom(q, 1)

\* bytes.NewReader(b); io.ReadAll of a reader returns what is left of it and
\* leaves it at its end
NewReader(b)  == [bytes |-> b, pos |-> 0, isNil |-> FALSE]
Remaining(rd) == SubSeq(rd.bytes, rd.pos + 1, Len(rd.bytes))
Drained(rd)   == [rd EXCEPT !.pos = Len(rd.bytes)]
RequestBodies == { NilReader, NewReader(<<>>),
                   NewReader(<<"{", "symbol", ":", "BTC", "}">>) }

\* a parseRequest that leaves r.body as io.ReadAll left it
MutResetBody(bodyBytes) ==
    Drained(NewReader(bodyBytes))

\* parseRequest, line 222: r.body = bytes.NewReader(bodyBytes)
ResetBody(bodyBytes) ==
    NewReader(bodyBytes)

\* Client.sign, lines 235-240
ClientSign(secret, payload) ==
    [hex |-> [mac |-> "hmac-sha256", key |-> secret, msg |-> payload]]

\* parseRequest, lines 205-224: what is signed
SignedPayload(r) ==
    IF r.method = "GET" \/ r.method = "DELETE"
    THEN (IF DOMAIN r.query # {} THEN Encode(r.query) ELSE <<>>)
    ELSE (IF ~r.body.isNil THEN Remaining(r.body) ELSE <<>>)

\* parseRequest, lines 179-232 (no options, or options that set no header of
\* the four): the request as callAPI sends it; a header is the sequence of its
\* values, Set leaves exactly one
ParseRequest(r) ==
    LET h1 == [r.header EXCEPT !["User-Agent"] = <<"Versifi/go">>,
                               !["Content-Type"] = <<"application/json">>]
        h2 == IF r.secType = "secTypeAPIKey" \/ r.secType = "secTypeSigned"
              THEN [h1 EXCEPT !["X-VERSIFI-API-KEY"] = <<APIKey>>] ELSE h1
        h3 == IF r.secType = "secTypeSigned"
              THEN [h2 EXCEPT !["X-VERSIFI-API-SIGN"] =
                                  <<ClientSign(APISecret, SignedPayload(r))>>]
              ELSE h2
        b  == IF /\ r.secType = "secTypeSigned"
                 /\ ~(r.method = "GET" \/ r.method = "DELETE")
                 /\ ~r.body.isNil
              THEN ResetBody(Remaining(r.body)) ELSE r.body
    IN [r EXCEPT !.fullURL = IF DOMAIN r.query # {}
                             THEN BaseURL \o Endpoint \o <<"?">> \o Encode(r.query)
                             ELSE BaseURL \o Endpoint,
                 !.header = h3,
                 !.body = b]

\* one evaluation of a sign method (history)
Signature(who, secret, payload, sig, direct) ==
    [signer |-> who, secret |-> secret, payload |-> payload, sig |-> sig,
     direct |-> direct]

\* a service method builds its request and calls callAPI
NewCall(m, st, q, b) ==
    /\ request.stage = "none" \/ (request.stage = "done" /\ request.seq < MaxCalls)
    /\ request' = [method |-> m, secType |-> st, query |-> q, body |-> b,
                   header |-> [n \in HeaderNames |-> NoHeader],
                   fullURL |-> <<>>, sentBody |-> NilBytes, stage |-> "parse",
                   seq |-> request.seq + 1]
    /\ response' = NoResponse
    /\ result' = NoResult
    /\ UNCHANGED <<signed, APIKey, APISecret, streamVars>>

\* callAPI, line 126: parseRequest
CallParseRequest ==
    /\ request # NoRequest /\ request.stage = "parse"
    /\ request' = [ParseRequest(request) EXCEPT !.stage = "do"]
    /\ signed' = IF request.secType = "secTypeSigned"
                 THEN signed \cup
                      { Signature("Client", APISecret, SignedPayload(request),
                          ClientSign(APISecret, SignedPayload(request)), FALSE) }
                 ELSE signed
    /\ UNCHANGED <<response, result, APIKey, APISecret, streamVars>>

\* callAPI, lines 131-149: the request is sent with what is left in r.body,
\* and the server answers; reading the response body may fail
DoOK(status, body, readErr) ==
    /\ request # NoRequest /\ request.stage = "do"
    /\ request' = [request EXCEPT !.stage = "read",
                                  !.sentBody = Remaining(request.body),
                                  !.body = Drained(request.body)]
    /\ response' = [status |-> status, body |-> body, readErr |-> readErr]
    /\ UNCHANGED <<result, signed, APIKey, APISecret, streamVars>>

\* callAPI, lines 146-149: the HTTP client returns an error
DoFail ==
    /\ request # NoRequest /\ request.stage = "do"
    /\ request' = [request EXCEPT !.stage = "done"]
    /\ result' = [data |-> <<>>, err |-> [type |-> "error"]]
    /\ UNCHANGED <<response, signed, APIKey, APISecret, streamVars>>

\* the response bodies: nothing, an API error, an order, and no JSON at all
ErrorBody == <<"{", "code", ":", "7", ",", "message", ":", "bad symbol", "}">>
ResponseBodies == { <<>>, ErrorBody, <<"{", "order_id", ":", "1", "}">>,
                    <<"<", "html", ">">> }
Statuses == { 200, 204, 399, 400, 500 }

\* the value of field name in the JSON object data, or none
FieldOf(data, name, none) ==
    IF \E i \in 1 .. Len(data) - 2 : data[i] = name /\ data[i + 1] = ":"
    THEN data[(CHOOSE i \in 1 .. Len(data) - 2 :
                  data[i] = name /\ data[i + 1] = ":") + 2]
    ELSE none

\* json.Unmarshal(data, apiErr), lines 167-171: the fields that the body has,
\* zero values for the others and for a body that is no JSON object
UnmarshalAPIError(data) ==
    IF Len(data) >= 2 /\ data[1] = "{" /\ data[Len(data)] = "}"
    THEN [type |-> "*APIError",
          code |-> ParseDecimal(<<FieldOf(data, "code", "0")>>),
          message |-> FieldOf(data, "message", "")]
    ELSE [type |-> "*APIError", code |-> 0, message |-> ""]

\* a callAPI that lets the status 400 through as a success
MutCallAPIResult(res) ==
    IF res.readErr THEN [data |-> <<>>, err |-> [type |-> "error"]]
    ELSE IF res.status > StatusBadRequest
    THEN [data |-> NilBytes, err |-> UnmarshalAPIError(res.body)]
    ELSE [data |-> res.body, err |-> NilError]

\* callAPI, lines 151-175: what it returns for a response
CallAPIResult(res) ==
    IF res.readErr THEN [data |-> <<>>, err |-> [type |-> "error"]]
    ELSE IF res.status >= StatusBadRequest
    THEN [data |-> NilBytes, err |-> UnmarshalAPIError(res.body)]
    ELSE [data |-> res.body, err |-> NilError]

CallAPIReturn ==
    /\ request # NoRequest /\ request.stage = "read"
    /\ request' = [request EXCEPT !.stage = "done"]
    /\ result' = CallAPIResult(response)
    /\ UNCHANGED <<response, signed, APIKey, APISecret, streamVars>>

\* the sign methods called on their own (client_test.go calls client.sign)
SignPayloads == { <<>>, <<"{", "symbol", ":", "BTC", "}">>,
                  GetRealtime \o Decimal(Expires(StartClock)) }

DirectSigns == Cardinality({ x \in signed : x.direct })

CallClientSign(payload) ==
    /\ DirectSigns < MaxSigns
    /\ signed' = signed \cup { Signature("Client", APISecret, payload,
                                   ClientSign(APISecret, payload), TRUE) }
    /\ UNCHANGED <<request, response, result, APIKey, APISecret, streamVars>>

CallWsSign(payload) ==
    /\ DirectSigns < MaxSigns
    /\ signed' = signed \cup { Signature("WsClient", APISecret, payload,
                                   WsSign(APISecret, payload), TRUE) }
    /\ UNCHANGED <<request, response, result, APIKey, APISecret, streamVars>>

RestInit ==
    /\ InitWith(SessionOps)
    /\ \E k \in Keys, s \in Secrets : Credentials(k, s, StartClock)

RestNext ==
    \/ \E m \in Methods, st \in SecTypes, q \in Queries, b \in RequestBodies :
          NewCall(m, st, q, b)
    \/ CallParseRequest
    \/ \E status \in Statuses, body \in ResponseBodies, readErr \in BOOLEAN :
          DoOK(status, body, readErr)
    \/ DoFail
    \/ CallAPIReturn
    \/ \E payload \in SignPayloads : CallClientSign(payload)
    \/ \E payload \in SignPayloads : CallWsSign(payload)

RestSpec == RestInit /\ [][RestNext]_vars

\* ------------------------------------------------- writes on the socket
\* Sessions in which nothing fails, with c.mu and the socket writes step by
\* step: a critical section under c.mu.Lock() waits until no goroutine is
\* inside SendJSON; SendJSON itself takes c.mu.RLock().  One caller connects;
\* it and a second caller subscribe and disconnect while the keepalive loop
\* pings.
WriteNext ==
    \/ \E g \in Openers : NoWriter /\ ConnectCheck(g)
    \/ \E g \in Users : NoWriter /\ DialOK(g)
    \/ \E g \in Senders : SendJSONBegin(g)
    \/ \E g \in Users : SendJSONReturns(g) /\ AuthSend(g)
    \/ \E g \in Users : NoWriter /\ AuthRegister(g)
    \/ \E g \in Users : NoWriter /\ AuthRecv(g)
    \/ \E g \in Users : NoWriter /\ ConnectCleanup(g, FALSE)
    \/ \E u \in Users : NoWriter /\ CallDisconnect(u, FALSE)
    \/ \E u \in Users, t \in Topics : SubscribeCheck(u, t)
    \/ \E u \in Users : NoWriter /\ SubscribeRegister(u)
    \/ \E u \in Users : SendJSONReturns(u) /\ SubscribeSend(u)
    \/ \E r \in Readers : ReadSelect(r)
    \/ \E r \in Readers : ReadLoad(r)
    \/ \E r \in Readers : ReadFrame(r, FALSE)
    \/ \E r \in Readers : ReadErr(r)
    \/ \E r \in Readers : NoWriter /\ AuthHandlerCall(r)
    \/ \E r \in Readers : AuthHandlerPush(r)
    \/ \E r \in Readers : NoWriter /\ ReadDefer(r)
    \/ \E r \in Readers : ReadCheckReconnect(r)
    \/ \E k \in Keepalives : KeepAliveDone(k)
    \/ \E k \in Keepalives : KeepAliveTick(k)
    \/ \E k \in Keepalives : SendJSONReturns(k) /\ KeepAlivePing(k)
    \/ \E s \in Socks : ServerAuthReply(s, TRUE)

WriteSpec == DispatchInit /\ [][WriteNext]_vars

\* ============================================================== claims
\* the step in which caller u makes a call
StartsSubscribe(u) == opsLeft'[u] = opsLeft[u] - 1 /\ called' = <<u, "Subscribe">>

CallsDisconnect(u) == opsLeft'[u] = opsLeft[u] - 1 /\ called' = <<u, "Disconnect">>

\* goroutine g's Connect() returns (its failed authenticate() is cleaned up)
CleansUp(g) == pc[g] = "c_fail" /\ pc'[g] # "c_fail"

\* read loop r calls Connect() from its deferred function
ReaderCallsConnect(r) == pc[r] \notin ConnectPCs /\ pc[r] # "r_exit"
                         /\ (pc'[r] = "c_dial" \/ (pc'[r] = "r_exit" /\ ret'[r] = "already"))

\* C1: Subscribe while IsAuthenticated() is false returns the not-authenticated
\* error, writes nothing on any socket and leaves the handler registry as it was.
C1_SubscribeUnauthenticated ==
    [][\A u \in Users :
         (StartsSubscribe(u) /\ ~isAuthenticated)
            => /\ ret'[u] = "notauth"
               /\ pc'[u] = "idle"
               /\ handlers' = handlers
               /\ sent' = sent]_vars

C1_Witness ==
    \E u \in Users : /\ called = <<u, "Subscribe">>
                     /\ ret[u] = "notauth" /\ ~isAuthenticated /\ nextSock > 0

\* C2: when the server answers the auth frame with success=true and the read
\* loop has taken that reply off the socket before the timeout, with neither a
\* read failure nor a Disconnect(), the reply is not lost: that Connect() does
\* not end in the authentication timeout.
C2_AuthReplyNeverLost ==
    \A g \in Connectors :
        ( /\ dialed[g] # NoSock
          /\ ~explicitDisc /\ ~doneClosed
          /\ \A s \in Socks : ~broken[s] /\ ~sockClosed[s] )
        => ~(pc[g] = "c_fail" /\ ret[g] = "timeout" /\ lostOK[dialed[g]])

\* C3: when the server rejects the auth frame, or the wait times out, Connect()
\* returns with the socket it opened closed and with IsConnected() and
\* IsAuthenticated() false.
C3_AuthFailureTearsDown ==
    [][\A g \in Connectors :
         (CleansUp(g) /\ ret[g] \in {"rejected", "timeout"})
            => /\ sockClosed'[dialed[g]]
               /\ ~isConnected'
               /\ ~isAuthenticated']_vars

\* C4: of the Connect() calls in progress at most one is past the state check.
C4_OneConnectPastCheck ==
    Cardinality({ g \in Connectors : pc[g] \in ConnectPCs }) <= 1

C6_SecondDisconnectNoOp ==
    [][\A u \in Users :
         (discReturned /\ CallsDisconnect(u))
            => /\ ~panicked'
               /\ ret'[u] = "disc_ok"
               /\ UNCHANGED <<clientVars, sent, sockClosed>>]_vars

\* C7: after an explicit Disconnect() has returned (and the application has not
\* called Connect() again), no read loop calls Connect().
C7_NoReconnectAfterDisconnect ==
    [][\A r \in Readers : explicitDisc => ~ReaderCallsConnect(r)]_vars

\* C8: after a read error on an authenticated client with reconnection enabled,
\* the deferred function first makes IsConnected() and IsAuthenticated() false,
\* and the read loop calls Connect() only when it has slept for the reconnect
\* delay after that.
C8_ReconnectAfterDelay ==
    [][\A r \in Readers :
         /\ (pc[r] = "r_defer" /\ pc'[r] # "r_defer")
               => (~isConnected' /\ ~isAuthenticated')
         /\ ReaderCallsConnect(r)
               => (pc[r] = "r_conn" /\ sleptFor[r] = ReconnectDelay)
         /\ (pc[r] = "r_sleep" /\ pc'[r] # "r_sleep")
               => (pc'[r] = "r_conn" /\ sleptFor'[r] = ReconnectDelay)
         /\ (pc'[r] \in {"r_sleep", "r_conn"} /\ pc[r] \notin {"r_sleep", "r_conn"})
               => pc[r] = "r_chk"
         /\ (pc'[r] = "r_chk" /\ pc[r] # "r_chk") => pc[r] = "r_defer"]_vars

C8_Witness ==
    \E r \in Readers :
        /\ atErr[r].hit /\ atErr[r].rec /\ atErr[r].auth
        /\ pc[r] = "a_send"
        /\ sleptFor[r] = ReconnectDelay

\* C9: while the application has not called Disconnect(), a reconnect attempt
\* that failed (dial failure, auth rejection, auth timeout) is followed by
\* another attempt: some read loop is sleeping out the delay or is inside
\* Connect(), unless the client is connected again.
C9_RetriesUnlimited ==
    \A r \in Readers :
        (pc[r] = "r_exit" /\ ret[r] \in {"dialerr", "rejected", "timeout"}
            /\ ~explicitDisc)
        => \/ isConnected
           \/ \E r2 \in Readers : pc[r2] \in {"r_sleep", "r_conn"} \cup ConnectPCs

\* C10: a read loop that hits a read error while reconnection is disabled
\* invokes the error callback exactly once and never calls Connect(): it
\* clears the flags and exits.
C10_NoReconnectWhenDisabled ==
    \A r \in Readers :
        (atErr[r].hit /\ ~atErr[r].rec)
        => /\ pc[r] \in {"r_defer", "r_chk", "r_exit"}
           /\ ret[r] = "none"
           /\ sleptFor[r] = 0
           /\ errCount[r] = IF errHandler THEN 1 ELSE 0

C10_Witness ==
    \E r \in Readers :
        /\ atErr[r].hit /\ ~atErr[r].rec /\ atErr[r].auth
        /\ pc[r] = "r_exit"
        /\ errHandler /\ errCount[r] = 1
        /\ ~isConnected /\ ~isAuthenticated

\* the step in which keepalive loop k returns because its ping could not be sent
PingFails(k) == pc[k] = "k_ping" /\ pc'[k] = "k_exit"

\* a background loop (read loop or keepalive loop) is started
LoopStarts(b) == pc[b] = "none" /\ pc'[b] # "none"

\* C17: when the keepalive loop's ping send fails, the loop's exit takes the
\* client through the transition of a read failure: the error callback is
\* invoked, IsConnected() and IsAuthenticated() are false, and with reconnection
\* enabled a read loop is on its way to Connect().
C17_PingFailureDisconnects ==
    [][\A k \in Keepalives :
         PingFails(k)
            => /\ errCount'[k] = errCount[k] + 1
               /\ ~isConnected' /\ ~isAuthenticated'
               /\ reconnect' =>
                    \E r \in Readers :
                        pc'[r] \in {"r_defer", "r_chk", "r_sleep", "r_conn"}
                                      \cup ConnectPCs]_vars

\* C18: IsConnected() is true exactly when the client holds a socket handle.
C18_StateAndHandleInSync == isConnected <=> (conn # NoSock)

\* C19: a Disconnect() that returns on a connected client, whether or not
\* closing the socket reported an error, and the deferred function of a read
\* loop that ended on a read error, leave IsConnected() and IsAuthenticated()
\* false.
C19_TeardownLeavesDisconnected ==
    [][/\ \A u \in Users :
            (CallsDisconnect(u) /\ isConnected /\ ~panicked')
               => (~isConnected' /\ ~isAuthenticated')
       /\ \A r \in Readers :
            (atErr[r].hit /\ pc[r] = "r_defer" /\ pc'[r] # "r_defer")
               => (~isConnected' /\ ~isAuthenticated')]_vars

\* C20: after an explicit Disconnect() has returned (and the application has
\* not called Connect() again) the client starts no read loop and no keepalive
\* loop.
C20_NoLoopAfterDisconnect ==
    [][\A b \in Readers \cup Keepalives : explicitDisc => ~LoopStarts(b)]_vars

\* the step in which caller u calls SendPing()
CallsSendPing(u) == opsLeft'[u] = opsLeft[u] - 1 /\ called' = <<u, "SendPing">>

\* C16: SendPing() (SendJSON of the ping frame) while IsConnected() is false
\* returns the not-connected error, writes on no socket and changes no state
\* of the client.
C16_SendWhileDisconnected ==
    [][\A u \in Users :
         (CallsSendPing(u) /\ ~isConnected)
            => /\ ret'[u] = "ping_notconn"
               /\ pc'[u] = "idle"
               /\ UNCHANGED <<clientVars, sent, sockClosed>>]_vars

\* a SendPing() refused on a client that was connected before and still holds
\* the handle of its dead socket
C16_Witness ==
    \E u \in Users : /\ called = <<u, "SendPing">> /\ ret[u] = "ping_notconn"
                     /\ ~isConnected /\ conn # NoSock

\* ------------------------------------------------- claims about dispatch
\* the step in which read loop r takes a frame off its socket
TakesFrame(r) ==
    /\ pc[r] = "r_read" /\ pc'[r] # "r_read"
    /\ inbound[rsock[r]] # <<>>
    /\ inbound'[rsock[r]] = Tail(inbound[rsock[r]])

\* the step in which read loop r looks up the handler of the frame's own op
LooksUpSpecific(r) == pc[r] = "r_spec" /\ pc'[r] # "r_spec"

\* the step after which read loop r is done with the frame it dispatched
EndsDispatch(r) == pc[r] \in {"r_spec", "r_wild"} /\ pc'[r] = "r_select"

\* the invocations recorded for frame n under key
CallsFor(log, key, n) ==
    { i \in 1 .. Len(log) : log[i].key = key /\ log[i].seq = n }

C12_WildcardForEveryFrame ==
    [][\A r \in Readers :
         (EndsDispatch(r) /\ handlers["*"] # NoHandler)
            => Cardinality(CallsFor(invoked', "*", cur[r].seq)) = 1]_vars

\* C13: on one socket handlers are invoked in the order of the frames, and for
\* one frame the handler of its op before the wildcard handler.
C13_InvocationsInFrameOrder ==
    \A i, j \in 1 .. Len(invoked) :
        (i < j /\ invoked[i].sock = invoked[j].sock)
            => /\ invoked[i].seq <= invoked[j].seq
               /\ invoked[i].seq = invoked[j].seq
                    => (invoked[i].key # "*" /\ invoked[j].key = "*")

\* C14: the handler of a topic is in the registry whenever a subscribe frame
\* for that topic is on the wire, so a frame that the server sends in answer
\* to that subscribe frame finds the handler when it is dispatched.
C14_RegisteredBeforeSubscribeFrame ==
    /\ \A s \in Socks, t \in Topics \cup DataTopics :
           BagIn(SubFrame(t), sent[s]) => handlers[t] # NoHandler
    /\ \A r \in Readers :
           (pc[r] = "r_spec" /\ BagIn(SubFrame(cur[r].op), sent[rsock[r]]))
               => handlers[cur[r].op] # NoHandler

\* a read loop is about to dispatch a frame sent in answer to a subscribe frame
C14_Witness ==
    \E r \in Readers :
        /\ pc[r] = "r_spec"
        /\ BagIn(SubFrame(cur[r].op), sent[rsock[r]])
        /\ handlers[cur[r].op] # NoHandler

\* C15: a frame that does not decode is skipped: no handler is invoked for
\* it, the client's state is unchanged and the read loop goes on to its next
\* read.
C15_MalformedFrameSkipped ==
    [][\A r \in Readers :
         (TakesFrame(r) /\ ~Decodes(Head(inbound[rsock[r]])))
            => /\ pc'[r] = "r_select"
               /\ invoked' = invoked
               /\ cur'[r] = NoFrame
               /\ UNCHANGED <<clientVars, panicked, sent, sockClosed, errCount>>]_vars

\* after a skipped frame the same socket's next frame was delivered to a handler
C15_Witness ==
    \E s \in Socks, i \in 1 .. Len(invoked) :
        /\ <<s, 1, Malformed(1).raw>> \in skipped
        /\ invoked[i].sock = s /\ invoked[i].seq = 2

\* ------------------------------------- claims about the goroutines' lifetimes
\* the step in which a read loop panics at line 340: c.conn is nil when the
\* loop loads it, and ReadMessage is called on the nil handle (no goroutine's
\* position and no caller's budget changes in that step: it is no Disconnect())
ReadsNil(r) ==
    /\ pc[r] = "r_load" /\ conn = NoSock
    /\ panicked' /\ ~panicked
    /\ UNCHANGED <<restVars, lockVars, signVars, authFailed, pc, opsLeft>>

\* C25: in no interleaving of Disconnect() with the read loop does the loop
\* start a read on a handle that Disconnect() has set to nil: a read loop that
\* goes on to ReadMessage finds c.conn set.
C25_NoReadOnNilHandle ==
    [][\A r \in Readers :
         /\ ~ReadsNil(r)
         /\ (pc[r] = "r_load" /\ pc'[r] = "r_read") => conn # NoSock]_vars

\* the step in which goroutine g runs the body of Disconnect(): called by the
\* application, or by a Connect() whose authenticate() failed
RunsDisconnect(g) == CleansUp(g) \/ (g \in Users /\ CallsDisconnect(g))

\* C26: in every sequence of Connect() and Disconnect() calls the channel done
\* is closed at most once: a Disconnect() that gets past its isConnected check
\* finds done open, and no Disconnect() panics.
C26_DoneClosedOnce ==
    [][\A g \in Connectors :
         RunsDisconnect(g)
            => /\ isConnected => ~doneClosed
               /\ ~panicked']_vars

\* a keepalive loop, or a read loop, is inside its for loop
KeepAliveRunning(k) == pc[k] \in {"k_wait", "k_ping"}

ReadLoopRunning(r) ==
    pc[r] \in {"r_select", "r_load", "r_read", "r_spec", "r_wild", "r_call", "r_push"}

\* C27: while nobody has called Disconnect() (c.done is open), whatever read
\* failures and reconnections have happened, at most one keepalive loop is
\* running, and a keepalive loop started for one socket is not running once a
\* later socket has been dialed.
C27_OneKeepAliveLoop ==
    ~doneClosed =>
        /\ Cardinality({ k \in Keepalives : KeepAliveRunning(k) }) <= 1
        /\ \A k \in Keepalives : KeepAliveRunning(k) => nextSock = k[2]

\* C28: while c.done is open at most one read loop is running, and a read loop
\* inside ReadMessage reads the socket whose dial started it.
C28_OneReadLoopOwnSocket ==
    ~doneClosed =>
        /\ Cardinality({ r \in Readers : ReadLoopRunning(r) }) <= 1
        /\ \A r \in Readers : pc[r] = "r_read" => rsock[r] = r[2]

\* the server's success reply to the auth frame written on socket s is on the
\* socket, waiting to be read
SuccessWaiting(s) ==
    \E i \in 1 .. Len(inbound[s]) : inbound[s][i] = AuthReply(TRUE)

\* C29: a Connect() re-invoked after a Connect() failed at authentication can
\* succeed: while it waits for the answer to its auth frame and the server's
\* success reply is on its socket (the transport is up, the socket open and its
\* read loop has met no read error), the read loop started by its dial is
\* running, so that the reply is delivered and Connect() returns nil with the
\* client authenticated.
C29_ConnectAgainAfterAuthFailure ==
    \A u \in Users :
        LET s == dialed[u] IN
        ( /\ authFailed /\ pc[u] = "a_wait" /\ s # NoSock
          /\ SuccessWaiting(s)
          /\ ~broken[s] /\ ~sockClosed[s]
          /\ ~atErr[<<"r", s>>].hit )
        => ReadLoopRunning(<<"r", s>>)

\* ------------------------------------------- claims about the socket writes
\* C30: no two goroutines are inside a write on one socket at the same time:
\* the SendJSON calls of Subscribe, of the keepalive ping and of the auth
\* handshake exclude each other, and Disconnect() writes its close frame only
\* while nobody is inside SendJSON.
C30_WritesMutuallyExclusive ==
    [][/\ \A g, h \in Senders :
            (g # h /\ writing'[g] # NoFrame /\ writing'[h] # NoFrame)
               => writing'[g].sock # writing'[h].sock
       /\ \A g \in Users : RunsDisconnect(g) => NoWriter]_vars

C23_StatusDecidesResult ==
    (request # NoRequest /\ request.stage = "done"
        /\ response # NoResponse /\ ~response.readErr)
    => IF response.status >= 400
       THEN /\ result.data = NilBytes
            /\ result.err.type = "*APIError"
            /\ response.body = ErrorBody
                  => (result.err.code = 7 /\ result.err.message = "bad symbol")
       ELSE /\ result.err = NilError
            /\ result.data = response.body

\* the two sides of the boundary have been returned, and a 204 without a body
C23_Witness ==
    /\ request # NoRequest /\ request.stage = "done"
    /\ response # NoResponse /\ ~response.readErr
    /\ \/ response.status = 204 /\ response.body = <<>> /\ result.data = <<>>
       \/ response.status = 400 /\ response.body = ErrorBody

\* what follows the first "?" of a URL (nothing when it has none)
AfterQuestionMark(url) ==
    LET marks == { i \in 1 .. Len(url) : url[i] = "?" } IN
    IF marks = {} THEN <<>>
    ELSE SubSeq(url, (CHOOSE i \in marks : \A j \in marks : i <= j) + 1, Len(url))

\* C24: once parseRequest has run on a signed request, X-VERSIFI-API-KEY is
\* the API key and X-VERSIFI-API-SIGN is the signature, under the API secret,
\* of the encoded query string of the URL (without "?") for GET and DELETE and
\* of the request body for POST and PUT; and the body that is sent for a POST
\* or PUT is the bytes that were signed.
C24_SignedRequestHeaders ==
    (request # NoRequest /\ request.stage # "parse"
        /\ request.secType = "secTypeSigned")
    => LET sig == request.header["X-VERSIFI-API-SIGN"][1] IN
       /\ request.header["X-VERSIFI-API-KEY"] = <<APIKey>>
       /\ Len(request.header["X-VERSIFI-API-SIGN"]) = 1
       /\ sig.hex.mac = "hmac-sha256" /\ sig.hex.key = APISecret
       /\ request.method \in {"GET", "DELETE"}
             => sig.hex.msg = AfterQuestionMark(request.fullURL)
       /\ (request.method \in {"POST", "PUT"} /\ request.sentBody # NilBytes)
             => sig.hex.msg = request.sentBody

\* a signed POST whose body has gone out
C24_Witness ==
    /\ request # NoRequest /\ request.stage = "done"
    /\ request.secType = "secTypeSigned" /\ request.method = "POST"
    /\ request.sentBody # NilBytes /\ Len(request.sentBody) > 0

\* ------------------------------------------ claims about the session state
\* C31: in every state, IsAuthenticated() implies IsConnected(): a success
\* reply that the read loop handles after the auth wait timed out, or after a
\* Disconnect(), does not set the authenticated flag.
C31_AuthenticatedImpliesConnected == isAuthenticated => isConnected

\* C32: a read loop schedules a reconnection (sleeps, then calls Connect())
\* only after the read failure of an established session: its read failed, and
\* the client was authenticated at that moment.
C32_ReconnectOnlyAfterSession ==
    \A r \in Readers :
        pc[r] \in {"r_sleep", "r_conn"} => (atErr[r].hit /\ atErr[r].auth)

\* C33: a Connect() whose auth wait ends in a rejection or the timeout removes
\* only its own auth waiter and closes only the socket it opened; when the connection in c.conn
\* is not its own it leaves the connection state alone, and it does not
\* disable reconnection while another Connect() attempt is in progress.
C33_CleanupTouchesOwnAttemptOnly ==
    [][LET \* g's authenticate() ends its wait and deletes "__auth__"
           EndsAuthWait(g) == pc[g] = "a_wait" /\ pc'[g] # "a_wait"
           \* another goroutine is inside Connect(), past the isConnected check
           OtherAttempt(g) == \E g2 \in Connectors \ {g} : pc[g2] \in ConnectPCs
       IN
       \A g \in Connectors :
         /\ EndsAuthWait(g)
               => (handlers[AuthKey] # TempHandler(dialed[g])
                     => handlers'[AuthKey] = handlers[AuthKey])
         /\ (CleansUp(g) /\ ret[g] \in {"rejected", "timeout"})
               => /\ \A s \in Socks \ {dialed[g]} : sockClosed'[s] = sockClosed[s]
                  /\ conn # dialed[g] => UNCHANGED <<conn, isConnected, isAuthenticated>>
                  /\ OtherAttempt(g) => reconnect' = reconnect]_vars

\* C35: after an explicit Disconnect() the read loop of an established
\* connection whose transport has not failed does not invoke the error
\* callback.  (A connection is established once the Connect() that dialed
\* it has returned nil, that is, has started its keepalive loop.)
C35_NoErrorCallbackOnDisconnect ==
    [][\A r \in Readers :
         (pc[r] = "r_read" /\ explicitDisc
                           /\ rsock[r] # NoSock /\ pc[<<"k", rsock[r]>>] # "none"
                           /\ ~broken[rsock[r]])
            => errCount'[r] = errCount[r]]_vars

\* C36: a socket is closed by the time its handle in c.conn is dropped or
\* overwritten.
C36_ClosedBeforeHandleDropped ==
    [][(conn # NoSock /\ conn' # conn) => sockClosed'[conn]]_vars

\* ------------------------------------------------ claims about the registry
\* C34: a frame with op auth, ping or subscribe never invokes a callback that
\* the application registered; an auth frame goes to the waiter of a
\* Connect() in progress or is dropped.
C34_ControlFramesReachNoUserHandler ==
    \A i \in 1 .. Len(invoked) : invoked[i].op \notin ControlOps

\* C38: Unsubscribe(topic) returns nil in every state; afterwards the topic
\* has no entry, every other entry is as before, the connection state is
\* unchanged and nothing was written to a socket; and no frame invokes a
\* handler under a key that Unsubscribe removed and nobody stored again.
C38_UnsubscribeRemovesOnlyItsTopic ==
    [][/\ \A u \in Users :
            \* the step in which caller u calls Unsubscribe()
            (opsLeft'[u] = opsLeft[u] - 1 /\ called' = <<u, "Unsubscribe">>)
               => /\ ret'[u] = "unsub_ok"
                  /\ \E t \in removed' :
                        /\ handlers'[t] = NoHandler
                        /\ \A t2 \in HandlerKeys \ {t} : handlers'[t2] = handlers[t2]
                  /\ UNCHANGED <<isConnected, isAuthenticated, conn, errHandler,
                                 doneClosed, reconnect, panicked, sockVars, authch>>
       /\ invoked' # invoked => invoked'[Len(invoked')].key \notin removed]_vars

\* a read loop is dispatching a business frame whose topic Unsubscribe has
\* removed, while the other caller's handler is still registered
C38_Witness ==
    \E r \in Readers, u \in Users :
        /\ pc[r] = "r_spec" /\ cur[r].op \in removed
        /\ called = <<u, "Unsubscribe">> /\ ret[u] = "unsub_ok"
        /\ handlers[cur[r].op] = NoHandler
        /\ \E t \in HandlerKeys : handlers[t] # NoHandler /\ handlers[t][1] = "user"

\* C37: after a Disconnect() or the read failure of an authenticated session,
\* reconnection included, an entry that Subscribe stored stays as it is until
\* Unsubscribe removes it or a later Subscribe on the same topic replaces it.
C37_RegistryKeptAcrossSessions ==
    [][\A t \in HandlerKeys :
         (handlers[t] # NoHandler /\ handlers[t][1] = "user"
                                  /\ handlers'[t] # handlers[t]
                                  /\ (explicitDisc \/ \E r \in Readers : atErr[r].auth))
            => \E u \in Users :
                  \* u calls Unsubscribe(t)
                  \/ /\ opsLeft'[u] = opsLeft[u] - 1
                     /\ called' = <<u, "Unsubscribe">>
                     /\ t \in removed'
                  \* u's Subscribe(t) stores its handler
                  \/ pc[u] = "s_reg" /\ pc'[u] = "s_send" /\ stopic[u] = t]_vars

\* ------------------------------------------- claims about the auth hand-off
\* C40: a read loop that hands an auth frame to the waiter is never stuck in
\* the send on authResponse, however many auth frames the server sends: the
\* channel it sends on has room, or the authenticate() that made the channel
\* is still at the select and will receive.
C40_HandOffCompletes ==
    \A r \in Readers :
        pc[r] = "r_push"
           => LET s == hcall[r][1][2] IN
              \/ authch[s] = "empty"
              \/ \E g \in Connectors : pc[g] = "a_wait" /\ dialed[g] = s

\* ------------------------------------------- claims about Connect() ending
\* C39: every Connect() call whose socket is open returns to its caller,
\* whatever the server and the read loops do.
C39_ConnectReturns ==
    \A g \in Users :
        (pc[g] \in ConnectPCs /\ dialed[g] # NoSock)
           ~> (~(pc[g] \in ConnectPCs /\ dialed[g] # NoSock) /\ Alive)

====
